---- MODULE Spec2Model ----
(***************************************************************************)
(* Model of the TCM activity-log pipeline of pulse-api-utilities:          *)
(* the web route tcm_activity_logs (src/app.py) and the command line tool  *)
(* main (src/tcm_activity_cli.py).                                         *)
(*                                                                         *)
(* Python values are modelled as follows.  A dict is a sequence of         *)
(* <<key, value>> pairs in insertion order (Python dicts iterate in        *)
(* insertion order).  An absent key / None is the value None.  A string    *)
(* that the code inspects character by character (the event's action) is   *)
(* a sequence of one-character strings.  Instants are whole seconds.       *)
(***************************************************************************)
EXTENDS Integers, Sequences, FiniteSets, TLC

VARIABLES
    \* ---- web route, event reducer (app.py 2851-2885) ----
    user_metrics,        \* dict user_luid -> set of metric ids
    metric_followers,    \* dict metric_id -> set of user luids
    user_luids,          \* set of user luids seen
    metric_ids,          \* set of metric ids seen
    event,               \* the loop variable: the event folded last
    pre_state,           \* the reducer's maps before the event folded last
    n_events,            \* number of events folded so far
    ever_followed,       \* the <<user, metric>> pairs that were ever in the maps
    \* ---- CLI, log analysis (tcm_activity_cli.py 719-740) ----
    user_subscriptions,  \* dict user_luid -> count
    cli_metric_followers,\* dict metric_id -> count
    cli_line,            \* the loop variable: the line analysed last
    cli_pre,             \* the two dicts before the line analysed last
    cli_seen,            \* the set of lines analysed before the last one
    n_lines,             \* number of lines analysed so far
    \* ---- web app, one call of tcm_get_activity_log_paths (app.py 951-1075) ----
    paths_script,        \* what the server answers, request by request
    paths_max_pages,     \* the max_pages argument
    paths_result,        \* the dict the call returned (NoResult before)
    \* ---- CLI, date range and chunking loop (tcm_activity_cli.py 551-659) ----
    start_date,          \* requested range, seconds
    end_date,
    current_start,       \* the loop variable
    date_chunks,         \* the (start, end) pairs the loop has produced
    chunk_pc,            \* "loop" | "done"
    \* ---- web route tcm_activity_logs, one request (app.py 2660-3115) ----
    web_pc,              \* the stage the route is at
    web_requests,        \* requests issued so far, by kind
    web_response,        \* the JSON object the route returned (NoResponse before)
    web_results,         \* the progress messages (results), as [success, tag]
    login_result,        \* what tcm_login returned
    web_range,           \* index of the date range to list next
    ranges_partial,      \* the ranges whose listing result had partial = True
    all_file_paths,      \* the locators found so far
    files_with_urls,     \* the 'files' array of the URL-resolution response
    web_i,               \* index of the file to download next
    downloaded_count,
    failed_count,
    all_logs,            \* the downloaded files, as [file_path, content]
    subscription_events, \* the events parsed from all_logs
    tableau_auth,        \* what authenticate_tableau_rest returned
    user_name_map,
    metric_name_map,
    \* ---- CLI main, one run (tcm_activity_cli.py 535-956) ----
    cli_pc,              \* the stage main is at
    cli_requests,        \* requests issued so far, by kind
    cli_exit,            \* the exit status main returned (NoExit before)
    cli_errors,          \* the print_error calls so far, by kind
    cli_login,           \* what tcm_login returned (tcm_auth)
    cli_all_file_paths,  \* all_file_paths
    download_urls,
    cli_files,           \* the descriptors of the URL-resolution response
    cli_i,               \* index of the URL to download next
    combined_logs,       \* the contents downloaded
    cli_auth,            \* what authenticate_tableau_rest returned
    cli_reports,         \* <<user_report_data, metric_report_data>>
    \* ---- the report step alone (app.py 2989-3007, cli 808-826) ----
    rep_pc,              \* "idle", "input" or "done"
    rep_kind,            \* "web" or "cli"
    rep_input,           \* the reduced state: <<id, count>> in insertion order
    rep_names,           \* the name map
    rep_rows,            \* the rows of the report
    auth_pc,             \* "idle", "answered" or "returned"
    auth_fn,             \* the authentication function that is called
    auth_answer,         \* the answer of the server to its request
    auth_result,         \* what the function returned
    dir_pc,              \* "idle", "ready" or "returned"
    dir_kind,            \* "web" or "cli"
    dir_total,           \* the number of users of the site (totalAvailable)
    dir_ok,              \* dir_ok[n]: the request for page n answers 200
    dir_map,             \* the user_name_map that was built
    dir_requests,        \* the users requests issued
    \* ---- manage-followers and swap-datasources routes (app.py 1322-1595) ----
    route_pc,            \* "idle", "posted", "returned"
    route_kind,          \* "manage_followers" or "swap_datasources"
    route_env,           \* the form and the answers of the server
    route_out            \* the JSON returned and the requests issued

foldVars == <<user_metrics, metric_followers, user_luids, metric_ids, event,
              pre_state, n_events, ever_followed>>
cliFoldVars == <<user_subscriptions, cli_metric_followers, cli_line, cli_pre,
                 cli_seen, n_lines>>
pathsVars == <<paths_script, paths_max_pages, paths_result>>
chunkVars == <<start_date, end_date, current_start, date_chunks, chunk_pc>>
webVars == <<web_pc, web_requests, web_response, web_results, login_result,
             web_range, ranges_partial, all_file_paths, files_with_urls, web_i,
             downloaded_count, failed_count, all_logs, subscription_events,
             tableau_auth, user_name_map, metric_name_map>>
cliRunVars == <<cli_pc, cli_requests, cli_exit, cli_errors, cli_login, cli_all_file_paths,
                download_urls, cli_files, cli_i, combined_logs, cli_auth, cli_reports>>
reportVars == <<rep_pc, rep_kind, rep_input, rep_names, rep_rows>>
authVars == <<auth_pc, auth_fn, auth_answer, auth_result>>
dirVars == <<dir_pc, dir_kind, dir_total, dir_ok, dir_map, dir_requests>>
routeVars == <<route_pc, route_kind, route_env, route_out>>
vars == <<foldVars, cliFoldVars, pathsVars, chunkVars, webVars, cliRunVars,
          reportVars, authVars, dirVars, routeVars>>

None == "None"

-----------------------------------------------------------------------------
(* Bounds of the model *)

MaxEvents == 3       \* events folded by the web reducer in one run
MaxLines == 3        \* lines analysed by the CLI in one run
MaxScript == 3       \* distinct answers of the server to one listing call
MaxCeiling == 2      \* largest max_pages a listing call is given
MaxDay == 16         \* latest day (from day 0) of a custom date range
MaxRunScript == 2    \* distinct answers of the server to one listing call of a run
MaxFiles == 2        \* entries of a URL-resolution response
MaxRows == 3         \* rows of a report built alone
MaxCount == 2        \* largest count of a row of a report built alone
MaxUserPages == 3    \* pages of the user directory of a site
MaxEmails == 2       \* emails of one manage-followers form
MaxRouteMetrics == 2 \* metrics one run of a route works on

-----------------------------------------------------------------------------
(* Python dicts and strings *)

Keys(d) == { d[i][1] : i \in 1..Len(d) }
Has(d, k) == k \in Keys(d)
IndexOf(d, k) == CHOOSE i \in 1..Len(d) : d[i][1] = k
Get(d, k) == d[IndexOf(d, k)][2]
\* d.get(k, default)
GetOr(d, k, default) == IF Has(d, k) THEN Get(d, k) ELSE default
\* d[k] = v : a new key goes last, an old key keeps its place
Put(d, k, v) ==
    IF Has(d, k) THEN [d EXCEPT ![IndexOf(d, k)] = <<k, v>>]
    ELSE Append(d, <<k, v>>)

\* bool(v) of a string or None: an absent or null attribute is None
Truthy(v) == v # None /\ v # ""

\* The cased characters of the model's strings: the ASCII letters and,
\* of the others, E acute and sigma. Every other character is uncased; the
\* strings hold no case-ignorable character (apostrophe, full stop, ...).
UpperChars == <<"A","B","C","D","E","F","G","H","I","J","K","L","M",
                "N","O","P","Q","R","S","T","U","V","W","X","Y","Z",
                "É","Σ">>
LowerChars == <<"a","b","c","d","e","f","g","h","i","j","k","l","m",
                "n","o","p","q","r","s","t","u","v","w","x","y","z",
                "é","σ">>
LowerChar(c) ==
    IF \E i \in 1..Len(UpperChars) : UpperChars[i] = c
    THEN LowerChars[CHOOSE i \in 1..Len(UpperChars) : UpperChars[i] = c]
    ELSE c
IsCased(c) ==
    \/ \E i \in 1..Len(UpperChars) : UpperChars[i] = c \/ LowerChars[i] = c
    \/ c = "ς"
\* A capital sigma that follows a cased character and is followed by none
\* lowers to the final sigma.
FinalSigma(s, i) ==
    /\ s[i] = "Σ"
    /\ i > 1 /\ IsCased(s[i - 1])
    /\ i = Len(s) \/ ~IsCased(s[i + 1])
\* str.lower()
Lower(s) ==
    [i \in 1..Len(s) |-> IF FinalSigma(s, i) THEN "ς" ELSE LowerChar(s[i])]
\* sub in s
Contains(sub, s) ==
    \E i \in 0..(Len(s) - Len(sub)) : SubSeq(s, i + 1, i + Len(sub)) = sub

Str_subscribe   == <<"s","u","b","s","c","r","i","b","e">>
Str_unsubscribe == <<"u","n","s","u","b","s","c","r","i","b","e">>
Str_add         == <<"a","d","d">>
Str_remove      == <<"r","e","m","o","v","e">>
Str_Remove      == <<"R","e","m","o","v","e">>
Str_view        == <<"v","i","e","w">>
Str_empty       == <<>>
\* The value of a string field the event does not carry.
NoString        == <<None>>
\* The value of a string field the event carries as null.
NullString      == <<None, None>>

-----------------------------------------------------------------------------
(* Web route: the event reducer *)

Users == {"u1", "u2"}
Metrics == {"m1", "m2"}

\* The values of the 'action' field the events carry; NoString is an event
\* without the field.
ActionValues == {Str_subscribe, Str_unsubscribe, Str_add, Str_remove,
                 Str_Remove, Str_view, NoString}

\* The parsed events the reducer reads: complete ones, and ones without
\* an actor or without a metric id.
NoEvent == [actorLuid |-> None, metricId |-> None, action |-> NoString]

WebEvents ==
    [actorLuid : Users, metricId : Metrics, action : ActionValues]
    \cup [actorLuid : {None}, metricId : {"m1"}, action : {Str_subscribe}]
    \cup [actorLuid : {"u1"}, metricId : {None}, action : {Str_subscribe}]
    \cup [actorLuid : {""}, metricId : {"m1"}, action : {Str_subscribe}]
    \cup [actorLuid : {"u1"}, metricId : {""}, action : {Str_add}]

\* event.get('action', '').lower(); the default stands in for a missing
\* field only: on "action": null the call of lower raises AttributeError
\* (ActionRaises), before the reducer looks at the ids.
ActionRaises(e) == e.action = NullString
event_action(e) == Lower(IF e.action = NoString THEN Str_empty ELSE e.action)

IsFollowAction(a) == Contains(Str_subscribe, a) \/ Contains(Str_add, a)
IsUnfollowAction(a) == Contains(Str_unsubscribe, a) \/ Contains(Str_remove, a)

\* if k not in d: d[k] = set()
InitKey(d, k) == IF Has(d, k) THEN d ELSE Append(d, <<k, {}>>)

\* d[k].add(x) / d[k].discard(x)
SetAdd(d, k, x) == Put(d, k, Get(d, k) \cup {x})
SetDiscard(d, k, x) == Put(d, k, Get(d, k) \ {x})

\* The subscribe / add branch.
TrackFollow_OneSided(st, actor, metric) ==
    [st EXCEPT !.user_metrics = SetAdd(st.user_metrics, actor, metric)]
TrackFollow_Toggle(st, actor, metric) ==
    IF metric \in Get(st.user_metrics, actor)
    THEN [st EXCEPT !.user_metrics = SetDiscard(st.user_metrics, actor, metric),
                    !.metric_followers = SetDiscard(st.metric_followers, metric, actor)]
    ELSE [st EXCEPT !.user_metrics = SetAdd(st.user_metrics, actor, metric),
                    !.metric_followers = SetAdd(st.metric_followers, metric, actor)]
TrackFollow(st, actor, metric) ==
    [st EXCEPT !.user_metrics = SetAdd(st.user_metrics, actor, metric),
               !.metric_followers = SetAdd(st.metric_followers, metric, actor)]

\* The unsubscribe / remove branch.
TrackUnfollow(st, actor, metric) ==
    [st EXCEPT !.user_metrics = SetDiscard(st.user_metrics, actor, metric),
               !.metric_followers = SetDiscard(st.metric_followers, metric, actor)]

\* One iteration of the loop over subscription_events.
ReduceEvent(st, e) ==
    IF ActionRaises(e) THEN st  \* raised before any update; the loop is over
    ELSE IF ~Truthy(e.actorLuid) \/ ~Truthy(e.metricId) THEN st
    ELSE
      LET seen == [st EXCEPT !.user_luids = @ \cup {e.actorLuid},
                             !.metric_ids = @ \cup {e.metricId}]
          keyed == [seen EXCEPT
                      !.user_metrics = InitKey(seen.user_metrics, e.actorLuid),
                      !.metric_followers = InitKey(seen.metric_followers, e.metricId)]
      IN  IF IsFollowAction(event_action(e))
            THEN TrackFollow(keyed, e.actorLuid, e.metricId)
          ELSE IF IsUnfollowAction(event_action(e))
            THEN TrackUnfollow(keyed, e.actorLuid, e.metricId)
          ELSE keyed

ReducerState ==
    [user_metrics |-> user_metrics, metric_followers |-> metric_followers,
     user_luids |-> user_luids, metric_ids |-> metric_ids]

EmptyReducerState ==
    [user_metrics |-> <<>>, metric_followers |-> <<>>,
     user_luids |-> {}, metric_ids |-> {}]

FoldInit ==
    /\ user_metrics = <<>>
    /\ metric_followers = <<>>
    /\ user_luids = {}
    /\ metric_ids = {}
    /\ event = NoEvent
    /\ pre_state = EmptyReducerState
    /\ n_events = 0
    /\ ever_followed = {}

\* Step 8: the rows of a report, sorted(d.items(), key=lambda x: -len(x[1])),
\* a stable sort, each with name_map.get(id, id).
RowPosition_Unstable(d, i) ==
    Cardinality({j \in 1..Len(d) : Cardinality(d[j][2]) > Cardinality(d[i][2])})
    + Cardinality({j \in (i + 1)..Len(d) :
                      Cardinality(d[j][2]) = Cardinality(d[i][2])})
    + 1
RowPosition(d, i) ==
    Cardinality({j \in 1..Len(d) : Cardinality(d[j][2]) > Cardinality(d[i][2])})
    + Cardinality({j \in 1..(i - 1) : Cardinality(d[j][2]) = Cardinality(d[i][2])})
    + 1
\* name_map.get(id, id)
DisplayName(name_map, id) == GetOr(name_map, id, id)
ReportRows(d, name_map) ==
    [p \in 1..Len(d) |->
        LET i == CHOOSE j \in 1..Len(d) : RowPosition(d, j) = p
        IN  [id |-> d[i][1], name |-> DisplayName(name_map, d[i][1]),
             count |-> Cardinality(d[i][2]), members |-> d[i][2]]]

FollowedPairs(um) ==
    {<<u, m>> \in Users \X Metrics : Has(um, u) /\ m \in Get(um, u)}

FoldEvent(e) ==
    /\ n_events < MaxEvents
    /\ LET st == ReduceEvent(ReducerState, e)
       IN  /\ user_metrics' = st.user_metrics
           /\ metric_followers' = st.metric_followers
           /\ user_luids' = st.user_luids
           /\ metric_ids' = st.metric_ids
    /\ event' = e
    /\ pre_state' = ReducerState
    /\ n_events' = n_events + 1
    /\ ever_followed' = ever_followed \cup FollowedPairs(user_metrics')

-----------------------------------------------------------------------------
(* CLI: the log analysis of step 9 *)

CliOps == {"FOLLOW_OPERATION_FOLLOW", "FOLLOW_OPERATION_UNFOLLOW"}

\* The lines of the downloaded logs: JSON objects, JSON values that are no
\* object (a number, null, a list, a string), and text that is not JSON.
\* (json = FALSE: json.loads raises JSONDecodeError.)
GarbageLine ==
    [json |-> FALSE, object |-> FALSE, eventType |-> None,
     actorUserLuid |-> None, scopedMetricId |-> None,
     subscriptionOperation |-> None]
CliScalarLine ==
    [json |-> TRUE, object |-> FALSE, eventType |-> None,
     actorUserLuid |-> None, scopedMetricId |-> None,
     subscriptionOperation |-> None]
NoLine ==
    [json |-> FALSE, object |-> FALSE, eventType |-> "",
     actorUserLuid |-> None, scopedMetricId |-> None,
     subscriptionOperation |-> None]

CliLines ==
    [json : {TRUE}, object : {TRUE}, eventType : {"metric_subscription_change"},
     actorUserLuid : Users, scopedMetricId : Metrics,
     subscriptionOperation : CliOps]
    \cup [json : {TRUE}, object : {TRUE}, eventType : {"site_login"}, actorUserLuid : {"u1"},
          scopedMetricId : {"m1"},
          subscriptionOperation : {"FOLLOW_OPERATION_FOLLOW"}]
    \cup [json : {TRUE}, object : {TRUE}, eventType : {"metric_subscription_change"},
          actorUserLuid : {None, ""}, scopedMetricId : {"m1"},
          subscriptionOperation : {"FOLLOW_OPERATION_FOLLOW"}]
    \cup [json : {TRUE}, object : {TRUE}, eventType : {"metric_subscription_change"},
          actorUserLuid : {"u1"}, scopedMetricId : {""},
          subscriptionOperation : {"FOLLOW_OPERATION_FOLLOW"}]
    \cup {GarbageLine, CliScalarLine}

CliCounts ==
    [user_subscriptions |-> user_subscriptions,
     metric_followers |-> cli_metric_followers]

\* d[k] = d.get(k, 0) + 1
CountUp(d, k) == Put(d, k, GetOr(d, k, 0) + 1)

\* json.loads accepts the line and its value is no dict: event.get raises
\* AttributeError, which 'except json.JSONDecodeError' does not catch.
LineRaises(line) == line.json /\ ~line.object

\* The body of the loop over the lines of one log.
AnalyzeLine(st, line) ==
    IF ~line.json THEN st
    ELSE IF LineRaises(line) THEN st  \* raised before any count; the loop is over
    ELSE IF /\ line.eventType = "metric_subscription_change"
            /\ Truthy(line.actorUserLuid)
            /\ Truthy(line.scopedMetricId)
            /\ line.subscriptionOperation = "FOLLOW_OPERATION_FOLLOW"
      THEN [user_subscriptions |-> CountUp(st.user_subscriptions, line.actorUserLuid),
            metric_followers |-> CountUp(st.metric_followers, line.scopedMetricId)]
    ELSE st

CliFoldInit ==
    /\ user_subscriptions = <<>>
    /\ cli_metric_followers = <<>>
    /\ cli_line = NoLine
    /\ cli_pre = [user_subscriptions |-> <<>>, metric_followers |-> <<>>]
    /\ cli_seen = {}
    /\ n_lines = 0

CliAnalyzeLine(line) ==
    /\ n_lines < MaxLines
    /\ ~LineRaises(cli_line)  \* the exception has left the loop
    /\ LET st == AnalyzeLine(CliCounts, line)
       IN  /\ user_subscriptions' = st.user_subscriptions
           /\ cli_metric_followers' = st.metric_followers
    /\ cli_line' = line
    /\ cli_pre' = CliCounts
    /\ cli_seen' = IF cli_line = NoLine THEN cli_seen ELSE cli_seen \cup {cli_line}
    /\ n_lines' = n_lines + 1

-----------------------------------------------------------------------------
(* Web app: tcm_get_activity_log_paths *)

\* One answer of the server to the listing request.  kind is "http" (a
\* response came back), "timeout" (requests.exceptions.Timeout) or "error"
\* (any other exception of requests.get).  body is "json" (a JSON object
\* with the fields below), "empty" (no text) or "text" (text that is not
\* JSON).  A field the object lacks is <<>> for a list and None for the
\* token.
HttpPage(filePaths, files, paths, pageToken) ==
    [kind |-> "http", status |-> 200, body |-> "json", filePaths |-> filePaths,
     files |-> files, paths |-> paths, pageToken |-> pageToken]
HttpOther(kind, status, body) ==
    [kind |-> kind, status |-> status, body |-> body, filePaths |-> <<>>,
     files |-> <<>>, paths |-> <<>>, pageToken |-> None]

PageTokens == {None, "tokA"}

PathResponses ==
    {HttpPage(<<"f1">>, <<>>, <<>>, t) : t \in PageTokens}
    \cup {HttpPage(<<"f1", "f2">>, <<"f3">>, <<>>, t) : t \in PageTokens}
    \cup {HttpPage(<<>>, <<"f2">>, <<"f3">>, t) : t \in PageTokens}
    \cup {HttpPage(<<>>, <<>>, <<"f3">>, t) : t \in PageTokens}
    \cup {HttpPage(<<>>, <<>>, <<>>, t) : t \in PageTokens \cup {""}}
    \cup {HttpOther("http", 403, "text"), HttpOther("http", 500, "text"),
          HttpOther("http", 200, "empty"), HttpOther("http", 200, "text"),
          HttpOther("timeout", 0, "empty"), HttpOther("error", 0, "empty")}

\* The server's answer to the n-th request of a call: the script, whose last
\* answer the server repeats from then on.
Answer(script, n) == script[IF n < Len(script) THEN n ELSE Len(script)]

\* response_data.get('filePaths', []) or .get('files', []) or .get('paths', [])
PageFilePaths(r) ==
    IF r.filePaths # <<>> THEN r.filePaths
    ELSE IF r.files # <<>> THEN r.files
    ELSE r.paths

\* The dicts the call returns.  partial and hit_limit are FALSE where the
\* dict has no such key; requests counts the listing requests issued.
PathsSuccess(file_paths, page_count, requests) ==
    [success |-> TRUE, file_paths |-> file_paths, partial |-> FALSE,
     hit_limit |-> FALSE, page_count |-> page_count, error |-> "",
     requests |-> requests]
PathsPartial(file_paths, page_count, hit_limit, requests) ==
    [success |-> TRUE, file_paths |-> file_paths, partial |-> TRUE,
     hit_limit |-> hit_limit, page_count |-> page_count, error |-> "",
     requests |-> requests]
PathsFailure(error, page_count, requests) ==
    [success |-> FALSE, file_paths |-> <<>>, partial |-> FALSE,
     hit_limit |-> FALSE, page_count |-> page_count, error |-> error,
     requests |-> requests]

\* The handlers of requests.exceptions.Timeout and of Exception.
PathsOnException_Lossy(error, collected, page_count, requests) ==
    PathsFailure(error, page_count, requests)
PathsOnException(error, collected, page_count, requests) ==
    IF collected # <<>>
    THEN PathsPartial(collected, page_count, FALSE, requests)
    ELSE PathsFailure(error, page_count, requests)

\* The safety limit at the head of the loop.
HitsLimit_Late(page_count, max_pages) == page_count > max_pages + 1
HitsLimit_Doubled(page_count, max_pages) == page_count > 2 * max_pages
HitsLimit(page_count, max_pages) == page_count > max_pages

\* The return after the loop; it reads response_data, which is unbound when
\* the loop was left before any page was parsed.
PathsAfterLoop(collected, page_count, parsed_any, requests) ==
    IF parsed_any THEN PathsSuccess(collected, page_count, requests)
    ELSE PathsOnException("Error getting activity log paths", collected,
                          page_count, requests)

\* One iteration of the while loop: page number page_count, answered by r.
\* done tells that the call returns result; otherwise the loop goes on with
\* the paths collected.
Returns(result) == [done |-> TRUE, result |-> result, collected |-> <<>>]
GoesOn(collected) == [done |-> FALSE, result |-> PathsFailure("", 0, 0),
                      collected |-> collected]
PathsPage(r, max_pages, page_count, collected, parsed_any) ==
    IF HitsLimit(page_count, max_pages)
      THEN Returns(PathsPartial(collected, page_count, TRUE, page_count - 1))
    ELSE IF r.kind = "timeout"
      THEN Returns(PathsOnException("Request timed out", collected,
                                    page_count, page_count))
    ELSE IF r.kind = "error"
      THEN Returns(PathsOnException("Error getting activity log paths",
                                    collected, page_count, page_count))
    ELSE IF r.body = "empty"
      THEN Returns(PathsAfterLoop(collected, page_count, parsed_any, page_count))
    ELSE IF r.status = 403 /\ page_count > 1
      THEN Returns(PathsAfterLoop(collected, page_count, parsed_any, page_count))
    ELSE IF r.status # 200
      THEN Returns(PathsFailure("Failed to get file paths", page_count,
                                page_count))
    ELSE IF r.body # "json"
      THEN Returns(PathsOnException("Error getting activity log paths",
                                    collected, page_count, page_count))
    ELSE IF r.pageToken = None \/ r.pageToken = ""
      THEN Returns(PathsSuccess(collected \o PageFilePaths(r), page_count,
                                page_count))
    ELSE GoesOn(collected \o PageFilePaths(r))

\* The while loop, entered with page_count0 pages requested so far.
RECURSIVE PathsLoop(_, _, _, _, _)
PathsLoop(script, max_pages, page_count0, collected, parsed_any) ==
    LET page == PathsPage(Answer(script, page_count0 + 1), max_pages,
                          page_count0 + 1, collected, parsed_any)
    IN  IF page.done THEN page.result
        ELSE PathsLoop(script, max_pages, page_count0 + 1, page.collected, TRUE)

tcm_get_activity_log_paths(script, max_pages) ==
    PathsLoop(script, max_pages, 0, <<>>, FALSE)

NoResult == PathsFailure("not called", 0, 0)

RECURSIVE SeqsUpTo(_, _)
\* The non-empty sequences over S of length at most n.
SeqsUpTo(S, n) ==
    IF n = 0 THEN {}
    ELSE LET shorter == SeqsUpTo(S, n - 1)
         IN  {<<x>> : x \in S} \cup shorter
             \cup {Append(q, x) : q \in shorter, x \in S}

PathsIdle ==
    /\ paths_script = <<>>
    /\ paths_max_pages = 0
    /\ paths_result = NoResult

PathsInit ==
    /\ paths_script \in SeqsUpTo(PathResponses, MaxScript)
    /\ paths_max_pages \in 1..MaxCeiling
    /\ paths_result = NoResult

PathsCall ==
    /\ paths_result = NoResult
    /\ paths_result' = tcm_get_activity_log_paths(paths_script, paths_max_pages)
    /\ UNCHANGED <<paths_script, paths_max_pages>>

-----------------------------------------------------------------------------
(* CLI: the requested date range and the 7-day chunking loop *)

Day == 24 * 60 * 60
\* timedelta(days=6, hours=23, minutes=59, seconds=59)
ChunkSpan == 6 * Day + 23 * 60 * 60 + 59 * 60 + 59
Min(a, b) == IF a < b THEN a ELSE b

\* Option 1 and the ValueError fallback: the last 7 days before now.
Nows == {7 * Day, 7 * Day + 1, 9 * Day + 12 * 60 * 60, 10 * Day - 1}
\* Option 2: strptime of two dates, the end date at 23:59:59.
CustomStart(day) == day * Day
CustomEnd(day) == day * Day + 23 * 60 * 60 + 59 * 60 + 59

ChunkIdle ==
    /\ start_date = 0 /\ end_date = 0 /\ current_start = 0
    /\ date_chunks = <<>> /\ chunk_pc = "idle"

ChunkInit ==
    /\ \/ \E now \in Nows : end_date = now /\ start_date = now - 7 * Day
       \/ \E d1 \in 0..MaxDay, d2 \in 0..MaxDay :
             start_date = CustomStart(d1) /\ end_date = CustomEnd(d2)
    /\ current_start = start_date
    /\ date_chunks = <<>>
    /\ chunk_pc = "loop"

\* current_end of one iteration of the chunking loop.
ChunkEnd_SevenDays(cur, last) == Min(cur + 7 * Day, last)
ChunkEnd(cur, last) == Min(cur + ChunkSpan, last)

\* One iteration of "while current_start < end_date".
ChunkStep ==
    /\ chunk_pc = "loop"
    /\ current_start < end_date
    /\ LET current_end == ChunkEnd(current_start, end_date)
       IN  /\ date_chunks' = Append(date_chunks,
                                    [start |-> current_start, end |-> current_end])
           /\ current_start' = current_end + 1
    /\ UNCHANGED <<start_date, end_date, chunk_pc>>

\* The loop condition fails.
ChunkExit ==
    /\ chunk_pc = "loop"
    /\ ~(current_start < end_date)
    /\ chunk_pc' = "done"
    /\ UNCHANGED <<start_date, end_date, current_start, date_chunks>>

\* Web route: the fixed range and its fixed chunk list.  An instant is its
\* number of seconds since 2025-10-01T00:00:00.
October(day, hour, minute, second) ==
    (day - 1) * Day + hour * 60 * 60 + minute * 60 + second
target_start_date == October(1, 0, 0, 0)
target_end_date == October(14, 23, 59, 59)
date_ranges ==
    << [start |-> October(1, 0, 0, 0), end |-> October(7, 23, 59, 59)],
       [start |-> October(8, 0, 0, 0), end |-> October(14, 23, 59, 59)] >>

-----------------------------------------------------------------------------
(* Web app: the helpers the route calls *)

\* def tcm_get_activity_log_paths(..., max_pages=50)
DefaultMaxPages == 50

\* An answer to the login request.  A field the JSON object lacks is None.
LoginAnswer(kind, status, sessionToken, tenantId) ==
    [kind |-> kind, status |-> status, sessionToken |-> sessionToken,
     tenantId |-> tenantId]
LoginAnswers ==
    {LoginAnswer("http", 200, "sess", "tenant"),
     LoginAnswer("http", 200, None, "tenant"),
     LoginAnswer("http", 200, "sess", None),
     LoginAnswer("http", 401, None, None),
     LoginAnswer("error", 0, None, None)}


tcm_login(r) ==
    IF r.kind # "http"
      THEN [success |-> FALSE, error |-> "Error during TCM login"]
    ELSE IF r.status = 200
      THEN IF Truthy(r.sessionToken) /\ Truthy(r.tenantId)
             THEN [success |-> TRUE, error |-> ""]
             ELSE [success |-> FALSE,
                   error |-> "Missing sessionToken or tenantId in response"]
    ELSE [success |-> FALSE, error |-> "Login failed"]

\* An entry of the 'files' array of the URL-resolution response.
FileEntries ==
    {[path |-> "f1", url |-> "url1"], [path |-> "f2", url |-> "url2"],
     [path |-> "f1", url |-> None], [path |-> None, url |-> "url3"]}
\* An answer to the URL-resolution request; object tells whether the JSON
\* value of the body is an object.
ResolveAnswers ==
    {[kind |-> "http", status |-> 200, object |-> TRUE, files |-> fs] :
        fs \in SeqsUpTo(FileEntries, MaxFiles) \cup {<<>>}}
    \cup {[kind |-> "http", status |-> 200, object |-> FALSE, files |-> <<>>],
          [kind |-> "http", status |-> 500, object |-> TRUE, files |-> <<>>],
          [kind |-> "error", status |-> 0, object |-> TRUE, files |-> <<>>]}

tcm_get_download_urls(r) ==
    IF r.kind # "http"
      THEN [success |-> FALSE, object |-> TRUE, files |-> <<>>,
            error |-> "Error getting download URLs"]
    ELSE IF r.status \in {200, 201, 202}
      THEN [success |-> TRUE, object |-> r.object, files |-> r.files,
            error |-> ""]
    ELSE [success |-> FALSE, object |-> TRUE, files |-> <<>>,
          error |-> "Failed to get download URLs"]

\* The lines of a downloaded file: a JSON object (an event), a JSON value
\* that is no object, text that json.loads rejects, or text that starts
\* with '=' or with 'LOG FILE:'.
EventLine(actor, metric, action) ==
    [json |-> TRUE, kind |-> "object",
     event |-> [actorLuid |-> actor, metricId |-> metric, action |-> action]]
GarbageWebLine == [json |-> FALSE, kind |-> "text", event |-> NoEvent]
ScalarLine == [json |-> TRUE, kind |-> "scalar", event |-> NoEvent]
MarkerLine == [json |-> FALSE, kind |-> "marker", event |-> NoEvent]
FileContents ==
    {<<EventLine("u1", "m1", Str_subscribe), EventLine("u2", "m1", Str_add)>>,
     <<EventLine("u1", "m2", Str_subscribe), GarbageWebLine,
       EventLine("u1", "m1", Str_remove)>>,
     <<MarkerLine, EventLine("u2", "m2", Str_subscribe)>>,
     <<EventLine("u2", "m2", Str_subscribe), ScalarLine>>,
     <<EventLine("u1", "m1", Str_add), EventLine(None, "m2", NullString)>>}
\* An answer to the download of one file.
DownloadAnswers ==
    {[kind |-> "http", status |-> 200, content |-> c] : c \in FileContents}
    \cup {[kind |-> "http", status |-> 404, content |-> <<>>],
          [kind |-> "error", status |-> 0, content |-> <<>>]}

tcm_download_log_file(r) ==
    IF r.kind # "http"
      THEN [success |-> FALSE, content |-> <<>>,
            error |-> "Error downloading log file"]
    ELSE IF r.status = 200
      THEN [success |-> TRUE, content |-> r.content, error |-> ""]
    ELSE [success |-> FALSE, content |-> <<>>, error |-> "Download failed"]

\* An answer to the Tableau sign-in request: status, whether the XML has a
\* credentials element, its token attribute and the id of its site element
\* (None: the attribute or the element is missing).
SigninAnswer(kind, status, credentials, token, site_id) ==
    [kind |-> kind, status |-> status, credentials |-> credentials,
     token |-> token, site_id |-> site_id]
SigninAnswers ==
    {SigninAnswer("http", 200, TRUE, "tok", "site"),
     SigninAnswer("http", 200, FALSE, None, None),
     SigninAnswer("http", 401, FALSE, None, None),
     SigninAnswer("error", 0, FALSE, None, None)}

authenticate_tableau_rest(r) ==
    IF r.kind # "http"
      THEN [success |-> FALSE, auth_token |-> None, site_id |-> None]
    ELSE IF r.status = 200
      THEN IF r.credentials
             THEN [success |-> TRUE, auth_token |-> r.token,
                   site_id |-> r.site_id]
             ELSE [success |-> FALSE, auth_token |-> None, site_id |-> None]
    ELSE [success |-> FALSE, auth_token |-> None, site_id |-> None]

NoAuth == [success |-> FALSE, auth_token |-> None, site_id |-> None]

-----------------------------------------------------------------------------
(* Web route: tcm_activity_logs *)

NoRequests ==
    [login |-> 0, list |-> 0, resolve |-> 0, download |-> 0, signin |-> 0,
     users |-> 0, definitions |-> 0, metric |-> 0]

\* The JSON objects the route returns.  kind tells the return statement.
NoResponse == [success |-> FALSE, kind |-> "none"]
WebFailure(kind) == [success |-> FALSE, kind |-> kind]
WebSuccess(kind) == [success |-> TRUE, kind |-> kind]

\* The answers of the server to the listing calls of a run.
RunPathResponses ==
    {HttpPage(<<"f1">>, <<>>, <<>>, "tokA"),
     HttpPage(<<"f2">>, <<>>, <<>>, None),
     HttpPage(<<>>, <<>>, <<>>, None),
     HttpOther("http", 500, "text"),
     HttpOther("timeout", 0, "empty")}
RunScripts == SeqsUpTo(RunPathResponses, MaxRunScript)

WebIdle ==
    /\ web_pc = "idle"
    /\ web_requests = NoRequests
    /\ web_response = NoResponse
    /\ web_results = <<>>
    /\ login_result = [success |-> FALSE, error |-> ""]
    /\ web_range = 1
    /\ ranges_partial = {}
    /\ all_file_paths = <<>>
    /\ files_with_urls = <<>>
    /\ web_i = 1
    /\ downloaded_count = 0
    /\ failed_count = 0
    /\ all_logs = <<>>
    /\ subscription_events = <<>>
    /\ tableau_auth = NoAuth
    /\ user_name_map = <<>>
    /\ metric_name_map = <<>>

WebInit ==
    /\ web_pc = "start"
    /\ web_requests = NoRequests
    /\ web_response = NoResponse
    /\ web_results = <<>>
    /\ login_result = [success |-> FALSE, error |-> ""]
    /\ web_range = 1
    /\ ranges_partial = {}
    /\ all_file_paths = <<>>
    /\ files_with_urls = <<>>
    /\ web_i = 1
    /\ downloaded_count = 0
    /\ failed_count = 0
    /\ all_logs = <<>>
    /\ subscription_events = <<>>
    /\ tableau_auth = NoAuth
    /\ user_name_map = <<>>
    /\ metric_name_map = <<>>

\* The handler of the route's try block: any exception becomes a failure
\* result.
OnException_Escapes(error_type) == NoResponse
OnException(error_type) == WebFailure("unexpected_error")

\* request.json is no dict (or raises): data.get raises inside the try block.
WebBadRequest ==
    /\ web_pc = "start"
    /\ web_pc' = "done"
    /\ web_response' = OnException("AttributeError")
    /\ UNCHANGED <<foldVars, web_requests, web_results, login_result, web_range, ranges_partial,
                   all_file_paths, files_with_urls, web_i, downloaded_count,
                   failed_count, all_logs, subscription_events, tableau_auth,
                   user_name_map, metric_name_map>>

\* Validation of the form fields: the route returns before any request.
WebMissingFields ==
    /\ web_pc = "start"
    /\ web_pc' = "done"
    /\ web_response' = WebFailure("missing_fields")
    /\ UNCHANGED <<foldVars, web_requests, web_results, login_result, web_range, ranges_partial,
                   all_file_paths, files_with_urls, web_i, downloaded_count,
                   failed_count, all_logs, subscription_events, tableau_auth,
                   user_name_map, metric_name_map>>

\* What the route does with the result of tcm_login.
AfterLogin_GoOn(result) == "list"
AfterLogin(result) == IF result.success THEN "list" ELSE "done"

\* Step 1: login to TCM.
WebLogin(r) ==
    /\ web_pc = "start"
    /\ web_requests' = [web_requests EXCEPT !.login = @ + 1]
    /\ login_result' = tcm_login(r)
    /\ web_pc' = AfterLogin(login_result')
    /\ web_response' = IF web_pc' = "done" THEN WebFailure("tcm_auth_failed")
                       ELSE web_response
    /\ UNCHANGED <<foldVars, web_results, web_range, ranges_partial, all_file_paths,
                   files_with_urls, web_i, downloaded_count, failed_count,
                   all_logs, subscription_events, tableau_auth, user_name_map,
                   metric_name_map>>

\* What the loop over date_ranges does after a listing call that failed:
\* "continue" goes on with the next range.
AfterRangeFailure_Abort(next_range) == "done"
AfterRangeFailure(next_range) ==
    IF next_range > Len(date_ranges) THEN "listed" ELSE "list"

\* Step 3: one iteration of the loop over date_ranges.
WebListRange(script) ==
    /\ web_pc = "list"
    /\ web_range <= Len(date_ranges)
    /\ LET paths_result_ == tcm_get_activity_log_paths(script, DefaultMaxPages)
       IN  /\ web_requests' =
                 [web_requests EXCEPT !.list = @ + paths_result_.requests]
           /\ ranges_partial' =
                 IF paths_result_.partial THEN ranges_partial \cup {web_range}
                 ELSE ranges_partial
           /\ IF ~paths_result_.success
                THEN /\ web_results' = Append(web_results,
                            [success |-> FALSE, tag |-> "range_failed"])
                     /\ all_file_paths' = all_file_paths
                     /\ web_pc' = AfterRangeFailure(web_range + 1)
                ELSE /\ web_results' = Append(web_results,
                            [success |-> TRUE, tag |-> "range_found"])
                     /\ all_file_paths' = all_file_paths \o paths_result_.file_paths
                     /\ web_pc' = IF web_range + 1 > Len(date_ranges)
                                  THEN "listed" ELSE "list"
    /\ web_range' = web_range + 1
    /\ web_response' = IF web_pc' = "done" THEN WebFailure("listing_failed")
                       ELSE web_response
    /\ UNCHANGED <<foldVars, login_result, files_with_urls, web_i,
                   downloaded_count, failed_count, all_logs,
                   subscription_events, tableau_auth, user_name_map,
                   metric_name_map>>

\* What the route does when the listing is over.
AfterListing_Always(paths) == "resolve"
AfterListing(paths) == IF paths = <<>> THEN "done" ELSE "resolve"

\* if not all_file_paths: return success with file_count 0.
WebListed ==
    /\ web_pc = "listed"
    /\ web_pc' = AfterListing(all_file_paths)
    /\ web_response' = IF web_pc' = "done" THEN WebSuccess("no_logs")
                       ELSE web_response
    /\ UNCHANGED <<foldVars, web_requests, web_results, login_result, web_range, ranges_partial,
                   all_file_paths, files_with_urls, web_i, downloaded_count,
                   failed_count, all_logs, subscription_events, tableau_auth,
                   user_name_map, metric_name_map>>

\* Step 4: get the download URLs.
WebResolve(r) ==
    /\ web_pc = "resolve"
    /\ web_requests' = [web_requests EXCEPT !.resolve = @ + 1]
    /\ LET urls_result == tcm_get_download_urls(r)
       IN  IF ~urls_result.success
             THEN /\ web_pc' = "done"
                  /\ web_response' = WebFailure("urls_failed")
                  /\ files_with_urls' = files_with_urls
           ELSE IF ~urls_result.object
             THEN /\ web_pc' = "done"
                  /\ web_response' = OnException("AttributeError")
                  /\ files_with_urls' = files_with_urls
           ELSE IF urls_result.files = <<>>
             THEN /\ web_pc' = "done"
                  /\ web_response' = WebFailure("no_urls")
                  /\ files_with_urls' = urls_result.files
           ELSE /\ web_pc' = "download"
                /\ web_response' = web_response
                /\ files_with_urls' = urls_result.files
    /\ UNCHANGED <<foldVars, web_results, login_result, web_range, ranges_partial,
                   all_file_paths, web_i, downloaded_count, failed_count,
                   all_logs, subscription_events, tableau_auth, user_name_map,
                   metric_name_map>>

\* The index the download loop goes on with after file i of n failed:
\* "continue", or the end of the loop body, never "break".
AfterFileFailure_Break(i, n) == n + 1
AfterFileFailure_SkipNext(i, n) == i + 2
AfterFileFailure(i, n) == i + 1

\* Step 5, a file without a download URL: counted as failed, no request.
WebSkipFile ==
    /\ web_pc = "download"
    /\ web_i <= Len(files_with_urls)
    /\ ~Truthy(files_with_urls[web_i].url)
    /\ web_results' = Append(web_results,
                             [success |-> FALSE, tag |-> "no_download_url"])
    /\ failed_count' = failed_count + 1
    /\ web_i' = AfterFileFailure(web_i, Len(files_with_urls))
    /\ UNCHANGED <<foldVars, web_pc, web_requests, web_response, login_result,
                   web_range, ranges_partial, all_file_paths, files_with_urls,
                   downloaded_count, all_logs, subscription_events,
                   tableau_auth, user_name_map, metric_name_map>>

\* file_obj.get('path', f'file_{i}'); an entry without 'path' has path None
file_path(file_obj, i) ==
    IF file_obj.path = None THEN "file_" \o ToString(i) ELSE file_obj.path

\* Step 5, a file with a download URL.
WebDownload(r) ==
    /\ web_pc = "download"
    /\ web_i <= Len(files_with_urls)
    /\ Truthy(files_with_urls[web_i].url)
    /\ web_requests' = [web_requests EXCEPT !.download = @ + 1]
    /\ LET download_result == tcm_download_log_file(r)
       IN  IF download_result.success
             THEN /\ all_logs' = Append(all_logs,
                        [file_path |-> file_path(files_with_urls[web_i], web_i),
                         content |-> download_result.content])
                  /\ downloaded_count' = downloaded_count + 1
                  /\ web_i' = web_i + 1
                  /\ UNCHANGED <<failed_count, web_results>>
             ELSE /\ failed_count' = failed_count + 1
                  /\ web_results' =
                        IF failed_count' <= 5
                        THEN Append(web_results,
                                    [success |-> FALSE, tag |-> "file_failed"])
                        ELSE web_results
                  /\ web_i' = AfterFileFailure(web_i, Len(files_with_urls))
                  /\ UNCHANGED <<all_logs, downloaded_count>>
    /\ UNCHANGED <<foldVars, web_pc, web_response, login_result, web_range, ranges_partial,
                   all_file_paths, files_with_urls, subscription_events,
                   tableau_auth, user_name_map, metric_name_map>>

\* The lines of one file that json.loads accepts; a line that starts with
\* '=' or 'LOG FILE:' is not handed to json.loads.
RECURSIVE ParseLines(_)
ParseLines(lines) ==
    IF lines = <<>> THEN <<>>
    ELSE (IF Head(lines).kind # "marker" /\ Head(lines).json
          THEN <<Head(lines)>> ELSE <<>>)
         \o ParseLines(Tail(lines))
\* An entry of all_logs that starts with '=' or 'LOG FILE:' is skipped
\* whole (the separators the route puts around each file are such entries).
SkippedEntry(content) == content # <<>> /\ Head(content).kind = "marker"
RECURSIVE ParseLogs(_)
ParseLogs(logs) ==
    IF logs = <<>> THEN <<>>
    ELSE (IF SkippedEntry(Head(logs).content) THEN <<>>
          ELSE ParseLines(Head(logs).content))
         \o ParseLogs(Tail(logs))
\* The reducer raises on the parsed value: it is no dict (event.get
\* raises), or its action is null.
RaisesOn(line) == line.kind = "scalar" \/ ActionRaises(line.event)
ReducerRaises(parsed) == \E i \in 1..Len(parsed) : RaisesOn(parsed[i])
EventsOf(parsed) == [i \in 1..Len(parsed) |-> parsed[i].event]


\* The loop over subscription_events, from the state st.
RECURSIVE ReduceAll(_, _)
ReduceAll(st, events) ==
    IF events = <<>> THEN st
    ELSE ReduceAll(ReduceEvent(st, Head(events)), Tail(events))

\* Step 6: the download loop is over; parse the logs and reduce the events.
WebAnalyze ==
    /\ web_pc = "download"
    /\ web_i > Len(files_with_urls)
    /\ LET parsed == ParseLogs(all_logs)
       IN  IF ReducerRaises(parsed)
             THEN \* the loop raises on the first value that is no dict or
                  \* has a null action; the events before it have been
                  \* reduced by then
                  LET first == CHOOSE i \in 1..Len(parsed) :
                                  /\ RaisesOn(parsed[i])
                                  /\ \A j \in 1..(i - 1) : ~RaisesOn(parsed[j])
                      st == ReduceAll(EmptyReducerState,
                                      EventsOf(SubSeq(parsed, 1, first - 1)))
                  IN  /\ subscription_events' = parsed
                      /\ user_metrics' = st.user_metrics
                      /\ metric_followers' = st.metric_followers
                      /\ user_luids' = st.user_luids
                      /\ metric_ids' = st.metric_ids
                      /\ web_pc' = "done"
                      /\ web_response' = OnException("AttributeError")
             ELSE LET st == ReduceAll(EmptyReducerState, EventsOf(parsed))
                  IN  /\ subscription_events' = EventsOf(parsed)
                      /\ user_metrics' = st.user_metrics
                      /\ metric_followers' = st.metric_followers
                      /\ user_luids' = st.user_luids
                      /\ metric_ids' = st.metric_ids
                      /\ web_pc' = "signin"
                      /\ web_response' = web_response
    /\ UNCHANGED <<event, pre_state, n_events, ever_followed, web_requests,
                   web_results, login_result, web_range, ranges_partial,
                   all_file_paths, files_with_urls, web_i, downloaded_count,
                   failed_count, all_logs, tableau_auth, user_name_map,
                   metric_name_map>>

\* Step 7: authenticate with Tableau; on failure go on with IDs only.
WebSignin(r) ==
    /\ web_pc = "signin"
    /\ web_requests' = [web_requests EXCEPT !.signin = @ + 1]
    /\ tableau_auth' = authenticate_tableau_rest(r)
    /\ IF tableau_auth'.success
         THEN /\ web_pc' = "names"
              /\ UNCHANGED <<web_results, user_name_map, metric_name_map>>
         ELSE /\ web_pc' = "report"
              /\ web_results' = Append(web_results,
                                    [success |-> FALSE, tag |-> "tableau_auth_failed"])
              /\ user_name_map' = <<>>
              /\ metric_name_map' = <<>>
    /\ UNCHANGED <<foldVars, web_response, login_result, web_range, ranges_partial,
                   all_file_paths, files_with_urls, web_i, downloaded_count,
                   failed_count, all_logs, subscription_events>>

\* An answer to the users request: the <user> elements of the page.
UsersAnswers ==
    {[kind |-> "http", status |-> 200,
      users |-> <<[id |-> "u1", name |-> "alice"]>>],
     [kind |-> "http", status |-> 500, users |-> <<>>]}

RECURSIVE UserMap(_)
\* user_name_map[user_luid] = username, for users with both attributes
UserMap(users) ==
    IF users = <<>> THEN <<>>
    ELSE LET rest == UserMap(SubSeq(users, 1, Len(users) - 1))
             u == users[Len(users)]
         IN  IF Truthy(u.id) /\ Truthy(u.name) THEN Put(rest, u.id, u.name)
             ELSE rest

\* The orders in which 'for metric_id in metric_ids' may visit the set ids:
\* a set of strings iterates in an order that changes with the hash seed of
\* the process, so every order is possible.
MetricOrders(ids) ==
    {order \in [1..Cardinality(ids) -> ids] :
        \A i, j \in 1..Cardinality(ids) : i # j => order[i] # order[j]}
\* for metric_id in metric_followers.keys(): the insertion order of a dict
KeyOrder(d) == [i \in 1..Len(d) |-> d[i][1]]

\* A definition of the definitions answer, and the detail of a metric: its
\* status (0: the request raises), metadata.name, definition_id and whether
\* specification.filters is non-empty. None: the key is missing.
MetricDefinition(m, name) == [id |-> "def_" \o m, name |-> name]
MetricDetail(status, m, name, scoped) ==
    [status |-> status, name |-> name, definition_id |-> "def_" \o m,
     scoped |-> scoped]
DefinitionsPage(status, definitions, next_page_token) ==
    [status |-> status, definitions |-> definitions,
     next_page_token |-> next_page_token]
PlainDetails == [m \in Metrics |-> MetricDetail(200, m, None, FALSE)]
BothDefinitions ==
    <<MetricDefinition("m1", "Definition of m1"),
      MetricDefinition("m2", "Definition of m2")>>

\* The answers to the pages of the definitions request and to the detail
\* request of each metric.
MetricAnswers ==
    {[pages |-> <<DefinitionsPage(200, <<>>, None)>>, details |-> PlainDetails],
     [pages |-> <<DefinitionsPage(200, <<BothDefinitions[1]>>, None)>>,
      details |-> PlainDetails],
     [pages |-> <<DefinitionsPage(200, <<BothDefinitions[2]>>, None)>>,
      details |-> PlainDetails],
     [pages |-> <<DefinitionsPage(200, BothDefinitions, None)>>,
      details |-> PlainDetails],
     [pages |-> <<DefinitionsPage(500, <<>>, None)>>, details |-> PlainDetails],
     [pages |-> <<DefinitionsPage(200, BothDefinitions, None)>>,
      details |-> [PlainDetails EXCEPT
                     !["m1"] = MetricDetail(200, "m1", None, TRUE)]],
     [pages |-> <<DefinitionsPage(200, <<MetricDefinition("m1", None),
                                         BothDefinitions[2]>>, None)>>,
      details |-> PlainDetails],
     [pages |-> <<DefinitionsPage(500, <<>>, None)>>,
      details |-> [PlainDetails EXCEPT
                     !["m1"] = MetricDetail(200, "m1", "Sales", FALSE)]],
     [pages |-> <<DefinitionsPage(200, <<BothDefinitions[1]>>, "tokB"),
                  DefinitionsPage(200, <<BothDefinitions[2]>>, None)>>,
      details |-> PlainDetails],
     [pages |-> <<DefinitionsPage(200, BothDefinitions, None)>>,
      details |-> [PlainDetails EXCEPT
                     !["m1"] = MetricDetail(404, "m1", None, FALSE)]],
     [pages |-> <<DefinitionsPage(200, BothDefinitions, None)>>,
      details |-> [PlainDetails EXCEPT
                     !["m2"] = MetricDetail(0, "m2", None, FALSE)]]}

\* The name the web route finds for a metric from its detail and the
\* definitions of the first page, or None.
WebMetricName(definitions, detail) ==
    IF detail.status # 200 THEN None
    ELSE LET hits == {i \in 1..Len(definitions) :
                         definitions[i].id = detail.definition_id}
         IN  IF hits = {} THEN None
             ELSE LET d == definitions[CHOOSE i \in hits : \A j \in hits : i <= j]
                  IN  (IF d.name = None THEN "Unknown" ELSE d.name)
                      \o (IF detail.scoped THEN " (Scoped)" ELSE "")

\* The metric the loop goes on with after the detail lookup of the i-th
\* one gave no name (status that is no 200, exception, unknown definition).
AfterMetricFailure_Abort(i) == Cardinality(Metrics) + 1
AfterMetricFailure(i) == i + 1

RECURSIVE MetricMap(_, _, _)
\* metric_name_map after the loop has visited the ids in the given order
\* from the i-th on.
MetricMap(order, mr, i) ==
    IF i > Len(order) THEN <<>>
    ELSE LET name == WebMetricName(mr.pages[1].definitions, mr.details[order[i]])
         IN  IF name # None
             THEN <<<<order[i], name>>>> \o MetricMap(order, mr, i + 1)
             ELSE MetricMap(order, mr, AfterMetricFailure(i))

RECURSIVE MetricRequests(_, _, _)
\* The detail requests the loop over metric_ids issues.
MetricRequests(order, mr, i) ==
    IF i > Len(order) THEN 0
    ELSE IF WebMetricName(mr.pages[1].definitions, mr.details[order[i]]) # None
      THEN 1 + MetricRequests(order, mr, i + 1)
    ELSE 1 + MetricRequests(order, mr, AfterMetricFailure(i))

\* Step 7, after a successful sign-in: fetch the users, the definitions and
\* the detail of each metric id.
WebNames(ur, mr, order) ==
    /\ web_pc = "names"
    /\ web_requests' =
          [web_requests EXCEPT
              !.users = @ + 1,
              !.definitions = @ + 1,
              !.metric = @ + (IF mr.pages[1].status = 200
                              THEN MetricRequests(order, mr, 1)
                              ELSE 0)]
    /\ user_name_map' = IF ur.kind = "http" /\ ur.status = 200
                        THEN UserMap(ur.users) ELSE <<>>
    /\ metric_name_map' = IF mr.pages[1].status = 200
                          THEN MetricMap(order, mr, 1) ELSE <<>>
    /\ web_results' =
          web_results
          \o (IF ur.kind = "http" /\ ur.status = 200 THEN <<>>
              ELSE <<[success |-> FALSE, tag |-> "users_failed"]>>)
          \o (IF mr.pages[1].status = 200 THEN <<>>
              ELSE <<[success |-> FALSE, tag |-> "definitions_failed"]>>)
    /\ web_pc' = "report"
    /\ UNCHANGED <<foldVars, web_response, login_result, web_range, ranges_partial,
                   all_file_paths, files_with_urls, web_i, downloaded_count,
                   failed_count, all_logs, subscription_events, tableau_auth>>

\* Steps 8 to 10 and the summary: the reports and the final response.
WebReport ==
    /\ web_pc = "report"
    /\ web_pc' = "done"
    /\ web_response' =
          [success |-> TRUE, kind |-> "report",
           log_count |-> downloaded_count, failed_count |-> failed_count,
           events_analyzed |-> Len(subscription_events),
           unique_users |-> Cardinality(user_luids),
           unique_metrics |-> Cardinality(metric_ids),
           user_report |-> ReportRows(user_metrics, user_name_map),
           metric_report |-> ReportRows(metric_followers, metric_name_map)]
    /\ UNCHANGED <<foldVars, web_requests, web_results, login_result, web_range, ranges_partial,
                   all_file_paths, files_with_urls, web_i, downloaded_count,
                   failed_count, all_logs, subscription_events, tableau_auth,
                   user_name_map, metric_name_map>>

-----------------------------------------------------------------------------
(* CLI: the helpers main calls *)

\* max_pages = 10, the ceiling of the page loop of one chunk
CliMaxPages == 10

\* A file object of a listing page: its path and the eventType segment of
\* the path.
CliFile(path, eventType) == [path |-> path, eventType |-> eventType]
\* An answer to the listing request of the CLI.
CliPage(files, nextPageToken) ==
    [kind |-> "http", status |-> 200, body |-> "json", files |-> files,
     nextPageToken |-> nextPageToken]
CliOther(kind, status, body) ==
    [kind |-> kind, status |-> status, body |-> body, files |-> <<>>,
     nextPageToken |-> None]
CliPathResponses ==
    {CliPage(<<CliFile("f1", "metric_subscription_change")>>, "tokA"),
     CliPage(<<CliFile("f2", "metric_subscription_change"),
               CliFile("g1", "site_login")>>, None),
     CliPage(<<>>, None),
     CliOther("http", 403, "text"),
     CliOther("http", 500, "text"),
     CliOther("error", 0, "empty")}
CliScripts == SeqsUpTo(CliPathResponses, MaxRunScript)

\* tcm_login of the CLI.
cli_tcm_login(r) ==
    IF r.kind # "http" THEN [success |-> FALSE, error |-> "Login error"]
    ELSE IF r.status = 200
      THEN IF Truthy(r.sessionToken) /\ Truthy(r.tenantId)
             THEN [success |-> TRUE, error |-> ""]
             ELSE [success |-> FALSE,
                   error |-> "Missing sessionToken or tenantId in response"]
    ELSE [success |-> FALSE, error |-> "Login failed"]

\* [f for f in files if '/eventType=metric_subscription_change/' in path]
RECURSIVE FilterFiles(_)
FilterFiles(files) ==
    IF files = <<>> THEN <<>>
    ELSE (IF Head(files).eventType = "metric_subscription_change"
          THEN <<Head(files)>> ELSE <<>>) \o FilterFiles(Tail(files))

\* tcm_get_activity_log_paths of the CLI: one request.
cli_get_activity_log_paths(r) ==
    IF r.kind # "http"
      THEN [success |-> FALSE, files |-> <<>>, nextPageToken |-> None]
    ELSE IF r.status = 200
      THEN IF r.body = "empty"
             THEN [success |-> TRUE, files |-> <<>>, nextPageToken |-> None]
           ELSE IF r.body # "json"
             THEN [success |-> FALSE, files |-> <<>>, nextPageToken |-> None]
           ELSE [success |-> TRUE, files |-> FilterFiles(r.files),
                 nextPageToken |-> r.nextPageToken]
    ELSE IF r.status = 403
      THEN [success |-> TRUE, files |-> <<>>, nextPageToken |-> None]
    ELSE [success |-> FALSE, files |-> <<>>, nextPageToken |-> None]

\* [f['path'] for f in files]
PathsOf(files) == [i \in 1..Len(files) |-> files[i].path]

\* One iteration of the page loop of a chunk, after chunk_pages0 pages.
CliPageStep(r, chunk_pages0, collected) ==
    LET result == cli_get_activity_log_paths(r)
    IN  IF ~result.success
          THEN [done |-> TRUE, failed |-> TRUE, collected |-> collected,
                chunk_pages |-> chunk_pages0]
        ELSE [done |-> ~Truthy(result.nextPageToken)
                         \/ chunk_pages0 + 1 >= CliMaxPages,
              failed |-> FALSE,
              collected |-> collected \o PathsOf(result.files),
              chunk_pages |-> chunk_pages0 + 1]

\* The page loop of one chunk: the paths found, the requests issued and
\* whether the loop ended on a result without success.
RECURSIVE CliPageLoop(_, _, _, _)
CliPageLoop(script, chunk_pages0, requests0, collected) ==
    LET page == CliPageStep(Answer(script, requests0 + 1), chunk_pages0,
                            collected)
    IN  IF page.done
          THEN [file_paths |-> page.collected, requests |-> requests0 + 1,
                failed |-> page.failed]
        ELSE CliPageLoop(script, page.chunk_pages, requests0 + 1,
                         page.collected)

\* tcm_get_download_urls of the CLI: the URLs of the entries that have one.
RECURSIVE UrlsOf(_)
UrlsOf(files) ==
    IF files = <<>> THEN <<>>
    ELSE (IF Truthy(Head(files).url) THEN <<Head(files).url>> ELSE <<>>)
         \o UrlsOf(Tail(files))
cli_get_download_urls(r) ==
    IF r.kind # "http" THEN [success |-> FALSE, urls |-> <<>>]
    ELSE IF r.status = 200
      THEN IF ~r.object THEN [success |-> FALSE, urls |-> <<>>]
           ELSE IF UrlsOf(r.files) # <<>>
             THEN [success |-> TRUE, urls |-> UrlsOf(r.files)]
             ELSE [success |-> FALSE, urls |-> <<>>]
    ELSE [success |-> FALSE, urls |-> <<>>]

CliFollowLine(user, metric) ==
    [json |-> TRUE, object |-> TRUE,
     eventType |-> "metric_subscription_change", actorUserLuid |-> user, scopedMetricId |-> metric,
     subscriptionOperation |-> "FOLLOW_OPERATION_FOLLOW"]
CliFileContents ==
    {<<CliFollowLine("u1", "m1"), CliFollowLine("u2", "m1")>>,
     <<CliFollowLine("u1", "m2"), GarbageLine>>,
     <<CliFollowLine("u2", "m2"), CliScalarLine, CliFollowLine("u1", "m1")>>}
CliDownloadAnswers ==
    {[kind |-> "http", status |-> 200, content |-> c] : c \in CliFileContents}
    \cup {[kind |-> "http", status |-> 404, content |-> <<>>],
          [kind |-> "error", status |-> 0, content |-> <<>>]}

\* tcm_download_log_file of the CLI.
cli_download_log_file(r) ==
    IF r.kind # "http" THEN [success |-> FALSE, content |-> <<>>]
    ELSE IF r.status = 200 THEN [success |-> TRUE, content |-> r.content]
    ELSE [success |-> FALSE, content |-> <<>>]

\* An answer to the sign-in request of the CLI: status and the fields
\* credentials.token and credentials.site.id of the JSON object (None: the
\* key is missing).
CliSigninAnswers ==
    {[kind |-> "http", status |-> 200, token |-> "tok", site_id |-> "site"],
     [kind |-> "http", status |-> 200, token |-> None, site_id |-> "site"],
     [kind |-> "http", status |-> 200, token |-> "tok", site_id |-> None],
     [kind |-> "http", status |-> 401, token |-> None, site_id |-> None],
     [kind |-> "error", status |-> 0, token |-> None, site_id |-> None]}

\* authenticate_tableau_rest of the CLI; a missing key raises KeyError,
\* which the function catches.
cli_authenticate_tableau_rest(r) ==
    IF r.kind # "http" THEN [success |-> FALSE]
    ELSE IF r.status = 200
      THEN IF r.token = None \/ r.site_id = None THEN [success |-> FALSE]
           ELSE [success |-> TRUE]
    ELSE [success |-> FALSE]

-----------------------------------------------------------------------------
(* CLI: main *)

NoExit == -1

CliRunIdle ==
    /\ cli_pc = "idle"
    /\ cli_requests = NoRequests
    /\ cli_exit = NoExit
    /\ cli_errors = <<>>
    /\ cli_login = [success |-> FALSE, error |-> ""]
    /\ cli_all_file_paths = <<>>
    /\ download_urls = <<>>
    /\ cli_files = <<>>
    /\ cli_i = 1
    /\ combined_logs = <<>>
    /\ cli_auth = [success |-> FALSE]
    /\ cli_reports = <<>>

\* The date ranges of the runs of the model: the last 7 days, a custom
\* range of 8 days, a custom range that ends before it starts, and custom
\* dates that strptime rejects: main prints an error and falls back to the
\* last 7 days, all before the login.
CliRunInit ==
    /\ cli_pc = "start"
    /\ cli_requests = NoRequests
    /\ cli_exit = NoExit
    /\ cli_login = [success |-> FALSE, error |-> ""]
    /\ cli_all_file_paths = <<>>
    /\ download_urls = <<>>
    /\ cli_files = <<>>
    /\ cli_i = 1
    /\ combined_logs = <<>>
    /\ cli_auth = [success |-> FALSE]
    /\ cli_reports = <<>>
    /\ \/ /\ end_date = 9 * Day /\ start_date = end_date - 7 * Day
          /\ cli_errors = <<>>
       \/ /\ start_date = CustomStart(0) /\ end_date = CustomEnd(7)
          /\ cli_errors = <<>>
       \/ /\ start_date = CustomStart(1) /\ end_date = CustomEnd(0)
          /\ cli_errors = <<>>
       \/ /\ end_date = 9 * Day /\ start_date = end_date - 7 * Day
          /\ cli_errors = <<"invalid_date">>
    /\ current_start = start_date
    /\ date_chunks = <<>>
    /\ chunk_pc = "idle"

\* What main does with the result of tcm_login.
CliAfterLogin_GoOn(result) == "chunks"
CliAfterLogin(result) == IF result.success THEN "chunks" ELSE "done"

\* Step 6: authenticate with TCM.
CliLogin(r) ==
    /\ cli_pc = "start"
    /\ cli_requests' = [cli_requests EXCEPT !.login = @ + 1]
    /\ cli_login' = cli_tcm_login(r)
    /\ cli_pc' = CliAfterLogin(cli_login')
    /\ cli_exit' = IF cli_pc' = "done" THEN 1 ELSE cli_exit
    /\ cli_errors' = IF cli_pc' = "done"
                     THEN Append(cli_errors, "tcm_auth_failed") ELSE cli_errors
    /\ chunk_pc' = IF cli_pc' = "done" THEN chunk_pc ELSE "loop"
    /\ UNCHANGED <<cliFoldVars, start_date, end_date, current_start,
                   date_chunks, cli_all_file_paths, download_urls, cli_files, cli_i,
                   combined_logs, cli_auth, cli_reports>>

\* Step 7: one iteration of the chunking loop with its page loop.
CliListChunk(script) ==
    /\ cli_pc = "chunks"
    /\ ChunkStep
    /\ LET listed == CliPageLoop(script, 0, 0, <<>>)
       IN  /\ cli_all_file_paths' = cli_all_file_paths \o listed.file_paths
           /\ cli_requests' = [cli_requests EXCEPT !.list = @ + listed.requests]
           /\ cli_errors' = IF listed.failed
                            THEN Append(cli_errors, "fetch_failed")
                            ELSE cli_errors
    /\ UNCHANGED <<cliFoldVars, cli_pc, cli_exit, cli_login, download_urls, cli_files,
                   cli_i, combined_logs, cli_auth, cli_reports>>

\* What main does when the chunking loop is over.
CliAfterListing_Zero(paths) == IF paths = <<>> THEN "exit0" ELSE "resolve"
CliAfterListing(paths) == IF paths = <<>> THEN "exit1" ELSE "resolve"

\* if not all_file_paths: print_error(...); return 1
CliListed ==
    /\ cli_pc = "chunks"
    /\ ChunkExit
    /\ LET next == CliAfterListing(cli_all_file_paths)
       IN  /\ cli_pc' = IF next = "resolve" THEN "resolve" ELSE "done"
           /\ cli_exit' = IF next = "exit1" THEN 1
                          ELSE IF next = "exit0" THEN 0 ELSE cli_exit
           /\ cli_errors' = IF next = "exit1"
                            THEN Append(cli_errors, "no_logs") ELSE cli_errors
    /\ UNCHANGED <<cliFoldVars, cli_requests, cli_login, cli_all_file_paths,
                   download_urls, cli_files, cli_i, combined_logs, cli_auth, cli_reports>>

\* Step 8: request the download URLs.
CliResolve(r) ==
    /\ cli_pc = "resolve"
    /\ cli_requests' = [cli_requests EXCEPT !.resolve = @ + 1]
    /\ LET download_result == cli_get_download_urls(r)
       IN  IF ~download_result.success
             THEN /\ cli_pc' = "done" /\ cli_exit' = 1
                  /\ cli_errors' = Append(cli_errors, "urls_failed")
                  /\ download_urls' = download_urls
                  /\ cli_files' = cli_files
             ELSE /\ cli_pc' = "download" /\ cli_exit' = cli_exit
                  /\ cli_errors' = cli_errors
                  /\ download_urls' = download_result.urls
                  /\ cli_files' = r.files
    /\ UNCHANGED <<cliFoldVars, chunkVars, cli_login, cli_all_file_paths,
                   cli_i, combined_logs, cli_auth, cli_reports>>

\* Step 8: download one file.
CliDownload(r) ==
    /\ cli_pc = "download"
    /\ cli_i <= Len(download_urls)
    /\ cli_requests' = [cli_requests EXCEPT !.download = @ + 1]
    /\ LET download == cli_download_log_file(r)
       IN  /\ combined_logs' = IF download.success
                                THEN Append(combined_logs, download.content)
                                ELSE combined_logs
           /\ cli_errors' = IF download.success THEN cli_errors
                            ELSE Append(cli_errors, "download_failed")
    /\ cli_i' = cli_i + 1
    /\ UNCHANGED <<cliFoldVars, chunkVars, cli_pc, cli_exit, cli_login,
                   cli_all_file_paths, download_urls, cli_files, cli_auth, cli_reports>>

\* The loops over combined_logs and over the lines of each log; both end
\* at the first line that raises.
LinesRaise(lines) == \E i \in 1..Len(lines) : LineRaises(lines[i])
LogsRaise(logs) == \E i \in 1..Len(logs) : LinesRaise(logs[i])
RECURSIVE AnalyzeLines(_, _)
AnalyzeLines(st, lines) ==
    IF lines = <<>> THEN st
    ELSE IF LineRaises(Head(lines)) THEN st
    ELSE AnalyzeLines(AnalyzeLine(st, Head(lines)), Tail(lines))
RECURSIVE AnalyzeLogs(_, _)
AnalyzeLogs(st, logs) ==
    IF logs = <<>> THEN st
    ELSE IF LinesRaise(Head(logs)) THEN AnalyzeLines(st, Head(logs))
    ELSE AnalyzeLogs(AnalyzeLines(st, Head(logs)), Tail(logs))

\* Step 9: the download loop is over; analyse the logs.  An exception of
\* the analysis leaves main: the handler of the script prints 'Unexpected
\* error' and exits with status 1.
CliAnalyze ==
    /\ cli_pc = "download"
    /\ cli_i > Len(download_urls)
    /\ LET st == AnalyzeLogs([user_subscriptions |-> <<>>,
                              metric_followers |-> <<>>], combined_logs)
       IN  /\ user_subscriptions' = st.user_subscriptions
           /\ cli_metric_followers' = st.metric_followers
    /\ IF LogsRaise(combined_logs)
         THEN /\ cli_pc' = "done"
              /\ cli_exit' = 1
              /\ cli_errors' = Append(cli_errors, "unexpected_error")
         ELSE /\ cli_pc' = "signin"
              /\ UNCHANGED <<cli_exit, cli_errors>>
    /\ UNCHANGED <<cli_line, cli_pre, cli_seen, n_lines, chunkVars,
                   cli_requests, cli_login,
                   cli_all_file_paths, download_urls, cli_files, cli_i, combined_logs,
                   cli_auth, cli_reports>>

\* Step 10: authenticate with Tableau; on failure return 1.
CliSignin(r) ==
    /\ cli_pc = "signin"
    /\ cli_requests' = [cli_requests EXCEPT !.signin = @ + 1]
    /\ cli_auth' = cli_authenticate_tableau_rest(r)
    /\ cli_pc' = IF cli_auth'.success THEN "names" ELSE "done"
    /\ cli_exit' = IF cli_auth'.success THEN cli_exit ELSE 1
    /\ cli_errors' = IF cli_auth'.success THEN cli_errors
                     ELSE Append(cli_errors, "tableau_auth_failed")
    /\ UNCHANGED <<cliFoldVars, chunkVars, cli_login, cli_all_file_paths,
                   download_urls, cli_files, cli_i, combined_logs, cli_reports>>

\* The rows of a report of the CLI: one per key in insertion order, then
\* sort(key=count, reverse=True), a stable sort.
CliRowPosition(d, i) ==
    Cardinality({j \in 1..Len(d) : d[j][2] > d[i][2]})
    + Cardinality({j \in 1..(i - 1) : d[j][2] = d[i][2]})
    + 1
\* name_map.get(id, f"Unknown ({id})")
CliDisplayName(name_map, id) ==
    GetOr(name_map, id, "Unknown (" \o id \o ")")
CliReportRows(d, name_map) ==
    [p \in 1..Len(d) |->
        LET i == CHOOSE j \in 1..Len(d) : CliRowPosition(d, j) = p
        IN  [name |-> CliDisplayName(name_map, d[i][1]), count |-> d[i][2]]]

\* pageSize=1000 of the users request of both programs
UsersPageSize == 1000

\* The answers of the server to the pages of the users request of the CLI:
\* a status, the users of the page and pagination.totalAvailable. An
\* attribute the answer leaves out is None.
CliUsersAnswers ==
    {<<[status |-> 200, total |-> 1,
        users |-> <<[id |-> "u1", name |-> "alice", email |-> None]>>]>>,
     <<[status |-> 500, total |-> 0, users |-> <<>>]>>,
     <<[status |-> 200, total |-> 1,
        users |-> <<[id |-> "u1", name |-> None, email |-> None]>>]>>,
     <<[status |-> 200, total |-> 1,
        users |-> <<[id |-> "u1", name |-> None, email |-> "a@x.org"]>>]>>,
     <<[status |-> 200, total |-> 2,
        users |-> <<[id |-> None, name |-> "carol", email |-> None],
                    [id |-> "u1", name |-> "alice", email |-> None]>>]>>,
     <<[status |-> 200, total |-> 1001,
        users |-> <<[id |-> "u1", name |-> "alice", email |-> None]>>],
       [status |-> 200, total |-> 1001,
        users |-> <<[id |-> "u2", name |-> "bob", email |-> None],
                    [id |-> "u1", name |-> "alice2", email |-> None]>>]>>}

\* get_all_users_on_site of the CLI, from page page_number on. A page the
\* server has no answer for comes back empty.
RECURSIVE CliUsersLoop(_, _, _)
CliUsersLoop(answers, page_number, all_users) ==
    IF page_number > Len(answers)
      THEN [users |-> all_users, requests |-> page_number]
    ELSE LET answer == answers[page_number]
         IN  IF answer.status # 200
               THEN [users |-> all_users, requests |-> page_number]
             ELSE IF answer.users = <<>>
               THEN [users |-> all_users, requests |-> page_number]
             ELSE IF page_number * UsersPageSize >= answer.total
               THEN [users |-> all_users \o answer.users,
                     requests |-> page_number]
             ELSE CliUsersLoop(answers, page_number + 1,
                               all_users \o answer.users)
get_all_users_on_site(answers) == CliUsersLoop(answers, 1, <<>>)

\* user['id'] of a user without id raises KeyError.
CliUserMapRaises(users) == \E i \in 1..Len(users) : users[i].id = None
RECURSIVE CliUserMap(_)
\* {user['id']: user.get('name', user.get('email', 'Unknown')) for user in all_users}
CliUserMap(users) ==
    IF users = <<>> THEN <<>>
    ELSE LET rest == CliUserMap(SubSeq(users, 1, Len(users) - 1))
             u == users[Len(users)]
         IN  Put(rest, u.id, IF u.name # None THEN u.name
                             ELSE IF u.email # None THEN u.email
                             ELSE "Unknown")

\* get_all_metric_definitions of the CLI, from the given page on. A page
\* the server has no answer for comes back empty.
RECURSIVE CliDefinitionsLoop(_, _, _)
CliDefinitionsLoop(pages, page, all_definitions) ==
    IF page > Len(pages)
      THEN [definitions |-> all_definitions, requests |-> page]
    ELSE LET answer == pages[page]
         IN  IF answer.status # 200
               THEN [definitions |-> all_definitions, requests |-> page]
             ELSE IF answer.definitions = <<>>
               THEN [definitions |-> all_definitions, requests |-> page]
             ELSE IF ~Truthy(answer.next_page_token)
               THEN [definitions |-> all_definitions \o answer.definitions,
                     requests |-> page]
             ELSE CliDefinitionsLoop(pages, page + 1,
                                     all_definitions \o answer.definitions)
get_all_metric_definitions(pages) == CliDefinitionsLoop(pages, 1, <<>>)

RECURSIVE DefinitionMap(_)
\* definition_map[def_id] = def_name, for definitions with both
DefinitionMap(definitions) ==
    IF definitions = <<>> THEN <<>>
    ELSE LET rest == DefinitionMap(SubSeq(definitions, 1, Len(definitions) - 1))
             d == definitions[Len(definitions)]
         IN  IF Truthy(d.id) /\ Truthy(d.name) THEN Put(rest, d.id, d.name)
             ELSE rest

\* The name the CLI finds for a metric: the name of the detail itself,
\* else the name of its definition, or None.
CliMetricName(definition_map, detail) ==
    IF detail.status # 200 THEN None
    ELSE IF Truthy(detail.name) THEN detail.name
    ELSE IF /\ Truthy(detail.definition_id)
            /\ Has(definition_map, detail.definition_id)
      THEN Get(definition_map, detail.definition_id)
    ELSE None

RECURSIVE CliMetricMap(_, _, _, _)
\* metric_name_map of the CLI after the loop over metric_followers.keys()
CliMetricMap(order, definition_map, details, i) ==
    IF i > Len(order) THEN <<>>
    ELSE LET name == CliMetricName(definition_map, details[order[i]])
         IN  (IF Truthy(name) THEN <<<<order[i], name>>>> ELSE <<>>)
             \o CliMetricMap(order, definition_map, details, i + 1)

\* Step 10, after the sign-in: fetch the users, the definitions and the
\* detail of each metric, build and show the reports, return 0. A KeyError
\* of the user map leaves main and the handler under __main__ exits with 1.
CliReport(ur, mr) ==
    /\ cli_pc = "names"
    /\ LET fetched == get_all_users_on_site(ur)
       IN  IF CliUserMapRaises(fetched.users)
             THEN /\ cli_requests' =
                        [cli_requests EXCEPT !.users = @ + fetched.requests]
                  /\ cli_reports' = cli_reports
                  /\ cli_exit' = 1
                  /\ cli_errors' = Append(cli_errors, "unexpected_error")
             ELSE LET users == CliUserMap(fetched.users)
                      all_definitions == get_all_metric_definitions(mr.pages)
                      metrics ==
                          CliMetricMap(KeyOrder(cli_metric_followers),
                                       DefinitionMap(all_definitions.definitions),
                                       mr.details, 1)
                  IN  /\ cli_requests' =
                            [cli_requests EXCEPT
                                !.users = @ + fetched.requests,
                                !.definitions = @ + all_definitions.requests,
                                !.metric = @ + Len(cli_metric_followers)]
                      /\ cli_reports' =
                            <<CliReportRows(user_subscriptions, users),
                              CliReportRows(cli_metric_followers, metrics)>>
                      /\ cli_exit' = 0
                      /\ cli_errors' = cli_errors
    /\ cli_pc' = "done"
    /\ UNCHANGED <<cliFoldVars, chunkVars, cli_login,
                   cli_all_file_paths, download_urls, cli_files, cli_i, combined_logs,
                   cli_auth>>

-----------------------------------------------------------------------------
(* The report step alone: a reduced state and a name map in, the rows out *)

ReportKeyPool == <<"id1", "id2", "id3", "id4">>
ReportKeys == {ReportKeyPool[i] : i \in 1..MaxRows}
MemberPool == <<"x1", "x2", "x3">>
\* A set of n members.
Members(n) == {MemberPool[i] : i \in 1..n}

\* The reduced states: distinct keys in any insertion order, each with a
\* count.
ReportInputs ==
    {d \in SeqsUpTo([key : ReportKeys, count : 0..MaxCount], MaxRows)
           \cup {<<>>} :
        \A i, j \in 1..Len(d) : i # j => d[i].key # d[j].key}
NameMaps == {<<>>, <<<<"id1", "alice">>>>, <<<<"id2", "bob">>, <<"id1", "alice">>>>}

\* user_metrics / metric_followers of the web route: id -> set.
WebDict(d) == [i \in 1..Len(d) |-> <<d[i].key, Members(d[i].count)>>]
\* user_subscriptions / metric_followers of the CLI: id -> count.
CliDict(d) == [i \in 1..Len(d) |-> <<d[i].key, d[i].count>>]

ReportIdle ==
    /\ rep_pc = "idle"
    /\ rep_kind = "web"
    /\ rep_input = <<>>
    /\ rep_names = <<>>
    /\ rep_rows = <<>>

\* The counters of the CLI start at 1: a key is created by its first FOLLOW.
ReportInit ==
    /\ rep_pc = "input"
    /\ rep_kind \in {"web", "cli"}
    /\ rep_input \in ReportInputs
    /\ rep_kind = "cli" => \A i \in 1..Len(rep_input) : rep_input[i].count >= 1
    /\ rep_names \in NameMaps
    /\ rep_rows = <<>>

\* Step 8 of the route.
WebBuildReport ==
    /\ rep_pc = "input" /\ rep_kind = "web"
    /\ rep_rows' = ReportRows(WebDict(rep_input), rep_names)
    /\ rep_pc' = "done"
    /\ UNCHANGED <<rep_kind, rep_input, rep_names>>

\* "Create reports" of main.
CliBuildReport ==
    /\ rep_pc = "input" /\ rep_kind = "cli"
    /\ rep_rows' = CliReportRows(CliDict(rep_input), rep_names)
    /\ rep_pc' = "done"
    /\ UNCHANGED <<rep_kind, rep_input, rep_names>>

-----------------------------------------------------------------------------
(* The authentication functions, each called alone on an answer *)

\* The answers to a login request: any status of the set with any value of
\* the two fields (None: the field is missing).
AuthLoginAnswers ==
    {LoginAnswer("http", status, sessionToken, tenantId) :
        status \in {200, 401}, sessionToken \in {None, "", "sess"},
        tenantId \in {None, "", "tenant"}}
    \cup {LoginAnswer("error", 0, None, None)}
\* The answers to the sign-in request of the web application: without a
\* credentials element there is no token and no site.
AuthSigninAnswers ==
    {SigninAnswer("http", status, TRUE, token, site_id) :
        status \in {200, 401}, token \in {None, "tok"},
        site_id \in {None, "site"}}
    \cup {SigninAnswer("http", status, FALSE, None, None) :
             status \in {200, 401}}
    \cup {SigninAnswer("error", 0, FALSE, None, None)}
\* The answers to the sign-in request of the CLI.
AuthCliSigninAnswers ==
    {[kind |-> "http", status |-> status, token |-> token,
      site_id |-> site_id] :
        status \in {200, 401}, token \in {None, "tok"},
        site_id \in {None, "site"}}
    \cup {[kind |-> "error", status |-> 0, token |-> None, site_id |-> None]}

AuthAnswersOf(fn) ==
    CASE fn = "tcm_login" -> AuthLoginAnswers
      [] fn = "cli_tcm_login" -> AuthLoginAnswers
      [] fn = "authenticate_tableau_rest" -> AuthSigninAnswers
      [] fn = "cli_authenticate_tableau_rest" -> AuthCliSigninAnswers
AuthFunctions ==
    {"tcm_login", "cli_tcm_login", "authenticate_tableau_rest",
     "cli_authenticate_tableau_rest"}

AuthIdle ==
    /\ auth_pc = "idle"
    /\ auth_fn = "none"
    /\ auth_answer = [kind |-> "none"]
    /\ auth_result = [success |-> FALSE]

AuthInit ==
    /\ auth_pc = "answered"
    /\ auth_fn \in AuthFunctions
    /\ auth_answer \in AuthAnswersOf(auth_fn)
    /\ auth_result = [success |-> FALSE]

AuthReturn(fn, result) ==
    /\ auth_pc = "answered"
    /\ auth_fn = fn
    /\ auth_result' = result
    /\ auth_pc' = "returned"
    /\ UNCHANGED <<auth_fn, auth_answer>>

AuthLogin == AuthReturn("tcm_login", tcm_login(auth_answer))
AuthCliLogin == AuthReturn("cli_tcm_login", cli_tcm_login(auth_answer))
AuthSignin ==
    AuthReturn("authenticate_tableau_rest",
               authenticate_tableau_rest(auth_answer))
AuthCliSignin ==
    AuthReturn("cli_authenticate_tableau_rest",
               cli_authenticate_tableau_rest(auth_answer))

-----------------------------------------------------------------------------
(* User resolution alone: the user directory of the site in, the map out *)

\* The sizes of the directory: none, less than a page, full pages, and
\* pages with a rest.
DirectorySizes == {0, 1, 1000, 1001, 2000, 2001}
\* The user of page n the model follows (the other users of the page
\* fare as it does).
DirUsers == <<"u1", "u2", "u3", "u4">>
DirPages == 1..MaxUserPages
\* The <user> elements of page n of a directory of total users.
DirPage(total, n) ==
    IF (n - 1) * UsersPageSize < total
    THEN <<[id |-> DirUsers[n], name |-> "name of " \o DirUsers[n],
            email |-> None]>>
    ELSE <<>>
\* The users the directory holds.
DirectoryUsers(total) == {DirUsers[n] : n \in {k \in DirPages : DirPage(total, k) # <<>>}}

\* The users request of the web route: one request, no pageNumber.
WebUsersFetched(total, ok) ==
    [users |-> IF ok[1] THEN DirPage(total, 1) ELSE <<>>, requests |-> 1]

\* The answers of the server to the pages of the users request, for a
\* directory of total users.
DirAnswers(total, ok) ==
    [n \in DirPages |->
        [status |-> IF ok[n] THEN 200 ELSE 500, users |-> DirPage(total, n),
         total |-> total]]

DirIdle ==
    /\ dir_pc = "idle"
    /\ dir_kind = "web"
    /\ dir_total = 0
    /\ dir_ok = <<>>
    /\ dir_map = <<>>
    /\ dir_requests = 0

DirInit ==
    /\ dir_pc = "ready"
    /\ dir_kind \in {"web", "cli"}
    /\ dir_total \in DirectorySizes
    /\ dir_ok \in [DirPages -> BOOLEAN]
    /\ dir_map = <<>>
    /\ dir_requests = 0

WebFetchUsers ==
    /\ dir_pc = "ready" /\ dir_kind = "web"
    /\ LET fetched == WebUsersFetched(dir_total, dir_ok)
       IN  /\ dir_map' = UserMap(fetched.users)
           /\ dir_requests' = fetched.requests
    /\ dir_pc' = "returned"
    /\ UNCHANGED <<dir_kind, dir_total, dir_ok>>

CliFetchUsers ==
    /\ dir_pc = "ready" /\ dir_kind = "cli"
    /\ LET fetched == get_all_users_on_site(DirAnswers(dir_total, dir_ok))
       IN  /\ dir_map' = CliUserMap(fetched.users)
           /\ dir_requests' = fetched.requests
    /\ dir_pc' = "returned"
    /\ UNCHANGED <<dir_kind, dir_total, dir_ok>>

-----------------------------------------------------------------------------
(* The manage-followers and swap-datasources routes: sign-in, work, sign-out *)

\* What the form and the server give one run of the manage-followers route.
\* users_found[i]: get_user_id_by_email finds the i-th email; metrics[i]:
\* what processing the i-th metric does.
ManageEnvs ==
    [fields_ok : BOOLEAN,
     action : {"add", "remove", "follow"},
     auth_method : {"password", "pat", "sso"},
     creds_ok : BOOLEAN,
     signin : {"raise", "tok", ""},
     users_found : {<<>>} \cup SeqsUpTo(BOOLEAN, MaxEmails),
     metrics : {<<>>} \cup SeqsUpTo({"changed", "nothing", "raise"}, MaxRouteMetrics)]
\* What the form and the server give one run of the swap-datasources route.
\* metrics[i]: the i-th old metric is the default one, is created again,
\* or create_metric_for_swap raises.
SwapEnvs ==
    [fields_ok : BOOLEAN,
     auth_method : {"password", "pat", "sso"},
     creds_ok : BOOLEAN,
     signin : {"raise", "tok", ""},
     copy_definition : {"ok", "raise"},
     list_metrics : {"ok", "raise"},
     metrics : {<<>>} \cup SeqsUpTo({"default", "created", "raise"}, MaxRouteMetrics),
     remove_old_followers : BOOLEAN]

\* force_sign_out: the sign-out requests it issues for a token.
force_sign_out(token) == IF token # "" THEN 1 ELSE 0

\* The sign-in block of both routes; word is "token" or "secret".
RouteSignIn(env, word) ==
    IF env.auth_method \notin {"password", "pat"}
      THEN [ok |-> FALSE, error |-> "Invalid authentication method",
            signins |-> 0, token |-> ""]
    ELSE IF ~env.creds_ok
      THEN [ok |-> FALSE,
            error |-> IF env.auth_method = "password"
                      THEN "Username and password are required"
                      ELSE "PAT name and " \o word \o " are required",
            signins |-> 0, token |-> ""]
    ELSE IF env.signin = "raise"
      THEN [ok |-> FALSE, error |-> "Authentication failed",
            signins |-> 1, token |-> ""]
    ELSE [ok |-> TRUE, error |-> "", signins |-> 1, token |-> env.signin]

\* The JSON a route returns, with the requests of the run.
RouteReturn(success, error, done, failed, signed_in, signins, signouts) ==
    [success |-> success, error |-> error, done |-> done, failed |-> failed,
     signed_in |-> signed_in, signins |-> signins, signouts |-> signouts]
RouteNotRun == RouteReturn(FALSE, "not run", 0, 0, FALSE, 0, 0)

CountOf(s, v) == Cardinality({i \in 1..Len(s) : s[i] = v})

manage_followers(env) ==
    IF ~env.fields_ok
      THEN RouteReturn(FALSE, "All fields are required", 0, 0, FALSE, 0, 0)
    ELSE IF env.action \notin {"add", "remove"}
      THEN RouteReturn(FALSE, "Invalid action", 0, 0, FALSE, 0, 0)
    ELSE LET auth == RouteSignIn(env, "token")
             user_ids == SelectSeq(env.users_found, LAMBDA found : found)
         IN  IF ~auth.ok
               THEN RouteReturn(FALSE, auth.error, 0, 0, FALSE, auth.signins, 0)
             ELSE IF user_ids = <<>>
               THEN RouteReturn(FALSE, "No valid users found", 0, 0, TRUE,
                                auth.signins, 0)
             ELSE RouteReturn(TRUE, "", CountOf(env.metrics, "changed"),
                              CountOf(env.metrics, "raise"), TRUE,
                              auth.signins, force_sign_out(auth.token))

\* The first metric whose creation raises before metric_name was ever
\* bound (the handler of the loop body reads metric_name), or 0.
UnboundNameAt(metrics) ==
    LET bad == {i \in 1..Len(metrics) :
                  /\ metrics[i] = "raise"
                  /\ \A j \in 1..(i - 1) : metrics[j] # "created"}
    IN  IF bad = {} THEN 0 ELSE CHOOSE i \in bad : \A j \in bad : i <= j

swap_datasources(env) ==
    IF ~env.fields_ok
      THEN RouteReturn(FALSE, "All fields are required", 0, 0, FALSE, 0, 0)
    ELSE LET auth == RouteSignIn(env, "secret")
         IN  IF ~auth.ok
               THEN RouteReturn(FALSE, auth.error, 0, 0, FALSE, auth.signins, 0)
             ELSE IF env.copy_definition = "raise"
               THEN RouteReturn(FALSE, "Failed to copy definition", 0, 0, TRUE,
                                auth.signins, force_sign_out(auth.token))
             ELSE IF env.list_metrics = "raise" \/ UnboundNameAt(env.metrics) # 0
               THEN RouteReturn(FALSE, "Failed to copy metrics", 0, 0, TRUE,
                                auth.signins, force_sign_out(auth.token))
             ELSE RouteReturn(TRUE, "", CountOf(env.metrics, "created"),
                              CountOf(env.metrics, "raise"), TRUE,
                              auth.signins, force_sign_out(auth.token))

RouteIdle ==
    /\ route_pc = "idle"
    /\ route_kind = "none"
    /\ route_env = [fields_ok |-> FALSE]
    /\ route_out = RouteNotRun

RouteInit ==
    /\ route_pc = "posted"
    /\ \/ route_kind = "manage_followers" /\ route_env \in ManageEnvs
       \/ route_kind = "swap_datasources" /\ route_env \in SwapEnvs
    /\ route_out = RouteNotRun

ManageFollowers ==
    /\ route_pc = "posted" /\ route_kind = "manage_followers"
    /\ route_out' = manage_followers(route_env)
    /\ route_pc' = "returned"
    /\ UNCHANGED <<route_kind, route_env>>

SwapDatasources ==
    /\ route_pc = "posted" /\ route_kind = "swap_datasources"
    /\ route_out' = swap_datasources(route_env)
    /\ route_pc' = "returned"
    /\ UNCHANGED <<route_kind, route_env>>

-----------------------------------------------------------------------------
(* Specifications *)

FoldNext ==
    \E e \in WebEvents :
        FoldEvent(e)
        /\ UNCHANGED <<cliFoldVars, pathsVars, chunkVars, webVars, cliRunVars,
                       reportVars, authVars, dirVars, routeVars>>
InitFold == FoldInit /\ CliFoldInit /\ PathsIdle /\ ChunkIdle /\ WebIdle
    /\ CliRunIdle /\ ReportIdle /\ AuthIdle /\ DirIdle /\ RouteIdle
SpecFold == InitFold /\ [][FoldNext]_vars

CliFoldNext ==
    \E l \in CliLines :
        CliAnalyzeLine(l)
        /\ UNCHANGED <<foldVars, pathsVars, chunkVars, webVars, cliRunVars,
                       reportVars, authVars, dirVars, routeVars>>
InitCliFold == FoldInit /\ CliFoldInit /\ PathsIdle /\ ChunkIdle /\ WebIdle
    /\ CliRunIdle /\ ReportIdle /\ AuthIdle /\ DirIdle /\ RouteIdle
SpecCliFold == InitCliFold /\ [][CliFoldNext]_vars

PathsNext ==
    PathsCall
    /\ UNCHANGED <<foldVars, cliFoldVars, chunkVars, webVars, cliRunVars,
                       reportVars, authVars, dirVars, routeVars>>
InitPaths == FoldInit /\ CliFoldInit /\ PathsInit /\ ChunkIdle /\ WebIdle
    /\ CliRunIdle /\ ReportIdle /\ AuthIdle /\ DirIdle /\ RouteIdle
SpecPaths == InitPaths /\ [][PathsNext]_vars

ChunkFrame ==
    UNCHANGED <<foldVars, cliFoldVars, pathsVars, webVars, cliRunVars,
                reportVars, authVars, dirVars, routeVars>>
ChunkNext ==
    \/ ChunkStep /\ ChunkFrame
    \/ ChunkExit /\ ChunkFrame
InitChunks == FoldInit /\ CliFoldInit /\ PathsIdle /\ ChunkInit /\ WebIdle
    /\ CliRunIdle /\ ReportIdle /\ AuthIdle /\ DirIdle /\ RouteIdle
SpecChunks == InitChunks /\ [][ChunkNext]_vars

WebFrame == UNCHANGED <<cliFoldVars, pathsVars, chunkVars, cliRunVars,
                       reportVars, authVars, dirVars, routeVars>>
WebNext ==
    \/ WebBadRequest /\ WebFrame
    \/ WebMissingFields /\ WebFrame
    \/ (\E r \in LoginAnswers : WebLogin(r)) /\ WebFrame
    \/ (\E script \in RunScripts : WebListRange(script)) /\ WebFrame
    \/ WebListed /\ WebFrame
    \/ (\E r \in ResolveAnswers : WebResolve(r)) /\ WebFrame
    \/ WebSkipFile /\ WebFrame
    \/ (\E r \in DownloadAnswers : WebDownload(r)) /\ WebFrame
    \/ WebAnalyze /\ WebFrame
    \/ (\E r \in SigninAnswers : WebSignin(r)) /\ WebFrame
    \/ (\E ur \in UsersAnswers, mr \in MetricAnswers,
           order \in MetricOrders(metric_ids) : WebNames(ur, mr, order))
          /\ WebFrame
    \/ WebReport /\ WebFrame
InitWeb ==
    /\ FoldInit /\ CliFoldInit /\ PathsIdle /\ ChunkIdle /\ WebInit
    /\ CliRunIdle /\ ReportIdle /\ AuthIdle /\ DirIdle /\ RouteIdle
SpecWeb == InitWeb /\ [][WebNext]_vars
\* The route is sequential code: it goes on as long as it has a next step.
\* AnalysisStep is the step of WebAnalyze, told by its guard and by where it
\* leaves web_pc.
AnalysisStep ==
    /\ web_pc = "download" /\ web_i > Len(files_with_urls)
    /\ web_pc' \in {"signin", "done"}
WebFairness ==
    /\ WF_vars(WebBadRequest /\ WebFrame)
    /\ WF_vars(WebMissingFields /\ WebFrame)
    /\ WF_vars((\E r \in LoginAnswers : WebLogin(r)) /\ WebFrame)
    /\ WF_vars((\E script \in RunScripts : WebListRange(script)) /\ WebFrame)
    /\ WF_vars(WebListed /\ WebFrame)
    /\ WF_vars((\E r \in ResolveAnswers : WebResolve(r)) /\ WebFrame)
    /\ WF_vars(WebSkipFile /\ WebFrame)
    /\ WF_vars((\E r \in DownloadAnswers : WebDownload(r)) /\ WebFrame)
    /\ WF_web_pc(AnalysisStep)
    /\ WF_vars((\E r \in SigninAnswers : WebSignin(r)) /\ WebFrame)
    /\ WF_vars((\E ur \in UsersAnswers, mr \in MetricAnswers,
                    order \in MetricOrders(metric_ids) :
                  WebNames(ur, mr, order)) /\ WebFrame)
    /\ WF_vars(WebReport /\ WebFrame)
SpecWebLive == SpecWeb /\ WebFairness

CliFrame == UNCHANGED <<foldVars, pathsVars, webVars, reportVars, authVars, dirVars, routeVars>>
CliNext ==
    \/ (\E r \in LoginAnswers : CliLogin(r)) /\ CliFrame
    \/ (\E script \in CliScripts : CliListChunk(script)) /\ CliFrame
    \/ CliListed /\ CliFrame
    \/ (\E r \in ResolveAnswers : CliResolve(r)) /\ CliFrame
    \/ (\E r \in CliDownloadAnswers : CliDownload(r)) /\ CliFrame
    \/ CliAnalyze /\ CliFrame
    \/ (\E r \in CliSigninAnswers : CliSignin(r)) /\ CliFrame
    \/ (\E ur \in CliUsersAnswers, mr \in MetricAnswers : CliReport(ur, mr))
          /\ CliFrame
InitCli ==
    /\ FoldInit /\ CliFoldInit /\ PathsIdle /\ WebIdle /\ CliRunInit
    /\ ReportIdle /\ AuthIdle /\ DirIdle /\ RouteIdle
SpecCli == InitCli /\ [][CliNext]_vars

ReportFrame ==
    UNCHANGED <<foldVars, cliFoldVars, pathsVars, chunkVars, webVars,
                cliRunVars, authVars, dirVars, routeVars>>
ReportNext ==
    \/ WebBuildReport /\ ReportFrame
    \/ CliBuildReport /\ ReportFrame
InitReport ==
    /\ FoldInit /\ CliFoldInit /\ PathsIdle /\ ChunkIdle /\ WebIdle
    /\ CliRunIdle /\ ReportInit /\ AuthIdle /\ DirIdle /\ RouteIdle
SpecReport == InitReport /\ [][ReportNext]_vars

\* The page loop of one chunk of the CLI, alone on a script of answers.
CliPathsInit ==
    /\ paths_script \in SeqsUpTo(CliPathResponses, MaxScript)
    /\ paths_max_pages = CliMaxPages
    /\ paths_result = NoResult
CliPathsCall ==
    /\ paths_result = NoResult
    /\ paths_result' = CliPageLoop(paths_script, 0, 0, <<>>)
    /\ UNCHANGED <<paths_script, paths_max_pages>>
CliPathsNext ==
    CliPathsCall
    /\ UNCHANGED <<foldVars, cliFoldVars, chunkVars, webVars, cliRunVars,
                   reportVars, authVars, dirVars, routeVars>>
InitCliPaths ==
    /\ FoldInit /\ CliFoldInit /\ CliPathsInit /\ ChunkIdle /\ WebIdle
    /\ CliRunIdle /\ ReportIdle /\ AuthIdle /\ DirIdle /\ RouteIdle
SpecCliPaths == InitCliPaths /\ [][CliPathsNext]_vars

AuthFrame ==
    UNCHANGED <<foldVars, cliFoldVars, pathsVars, chunkVars, webVars,
                cliRunVars, reportVars, dirVars, routeVars>>
AuthNext ==
    \/ AuthLogin /\ AuthFrame
    \/ AuthCliLogin /\ AuthFrame
    \/ AuthSignin /\ AuthFrame
    \/ AuthCliSignin /\ AuthFrame
InitAuth ==
    /\ FoldInit /\ CliFoldInit /\ PathsIdle /\ ChunkIdle /\ WebIdle
    /\ CliRunIdle /\ ReportIdle /\ AuthInit /\ DirIdle /\ RouteIdle
SpecAuth == InitAuth /\ [][AuthNext]_vars

DirFrame ==
    UNCHANGED <<foldVars, cliFoldVars, pathsVars, chunkVars, webVars,
                cliRunVars, reportVars, authVars, routeVars>>
DirNext ==
    \/ WebFetchUsers /\ DirFrame
    \/ CliFetchUsers /\ DirFrame
InitDir ==
    /\ FoldInit /\ CliFoldInit /\ PathsIdle /\ ChunkIdle /\ WebIdle
    /\ CliRunIdle /\ ReportIdle /\ AuthIdle /\ DirInit /\ RouteIdle
SpecDir == InitDir /\ [][DirNext]_vars

RouteFrame ==
    UNCHANGED <<foldVars, cliFoldVars, pathsVars, chunkVars, webVars,
                cliRunVars, reportVars, authVars, dirVars>>
RouteNext ==
    \/ ManageFollowers /\ RouteFrame
    \/ SwapDatasources /\ RouteFrame
InitRoute ==
    /\ FoldInit /\ CliFoldInit /\ PathsIdle /\ ChunkIdle /\ WebIdle
    /\ CliRunIdle /\ ReportIdle /\ AuthIdle /\ DirIdle /\ RouteInit
SpecRoute == InitRoute /\ [][RouteNext]_vars

\* A run of the web route or a run of the CLI.
InitRuns == InitWeb \/ InitCli
RunsNext == WebNext \/ CliNext
SpecRuns == InitRuns /\ [][RunsNext]_vars

-----------------------------------------------------------------------------
(* Claims about the event reducer of the web route (SpecFold) *)

\* The event folded last names both an actor and a metric.
EventHasIds == n_events > 0 /\ Truthy(event.actorLuid) /\ Truthy(event.metricId)
\* The event folded last is a FOLLOW: its action is subscribe or add.
EventIsFollow == EventHasIds /\ event_action(event) \in {Str_subscribe, Str_add}
\* The event folded last is an UNFOLLOW: its action is unsubscribe or remove.
EventIsUnfollow ==
    EventHasIds /\ event_action(event) \in {Str_unsubscribe, Str_remove}
InMaps(st, u, m) ==
    /\ Has(st.user_metrics, u) /\ m \in Get(st.user_metrics, u)
    /\ Has(st.metric_followers, m) /\ u \in Get(st.metric_followers, m)

\* C1: after every fold step, for every user u and metric m, m is in
\* user_metrics[u] if and only if u is in metric_followers[m].
C1_Symmetry ==
    \A u \in Users, m \in Metrics :
        (Has(user_metrics, u) /\ m \in Get(user_metrics, u))
        <=> (Has(metric_followers, m) /\ u \in Get(metric_followers, m))

\* C1 witness: a removal has just taken a pair out of both maps while
\* another pair is still followed.
C1_Witness ==
    /\ EventHasIds
    /\ InMaps(pre_state, event.actorLuid, event.metricId)
    /\ ~InMaps(ReducerState, event.actorLuid, event.metricId)
    /\ FollowedPairs(user_metrics) # {}

\* C2 (as claimed): right after an UNFOLLOW event for (actor, metric) is
\* folded, metric is not in user_metrics[actor] and actor is not in
\* metric_followers[metric].
C2_UnfollowRemoves ==
    EventIsUnfollow =>
        /\ event.metricId \notin GetOr(user_metrics, event.actorLuid, {})
        /\ event.actorLuid \notin GetOr(metric_followers, event.metricId, {})

\* C3: folding a FOLLOW event for a pair that is already followed leaves
\* both maps as they were.
C3_FollowIdempotent ==
    (EventIsFollow /\ InMaps(pre_state, event.actorLuid, event.metricId)) =>
        /\ user_metrics = pre_state.user_metrics
        /\ metric_followers = pre_state.metric_followers

\* C3 witness: a FOLLOW has been folded for a pair already followed, by a
\* user who follows another metric too.
C3_Witness ==
    /\ EventIsFollow
    /\ InMaps(pre_state, event.actorLuid, event.metricId)
    /\ Cardinality(Get(user_metrics, event.actorLuid)) > 1

\* C5 (as claimed): folding an UNFOLLOW event for a pair that was never in
\* the state changes neither map and no report row.
C5_UnfollowAbsentNoop ==
    (EventIsUnfollow /\ <<event.actorLuid, event.metricId>> \notin ever_followed
                       /\ ~InMaps(pre_state, event.actorLuid, event.metricId)) =>
        /\ user_metrics = pre_state.user_metrics
        /\ metric_followers = pre_state.metric_followers
        /\ ReportRows(user_metrics, <<>>) = ReportRows(pre_state.user_metrics, <<>>)
        /\ ReportRows(metric_followers, <<>>)
               = ReportRows(pre_state.metric_followers, <<>>)

-----------------------------------------------------------------------------
(* Claims about the log analysis of the CLI (SpecCliFold) *)

\* C4 (as claimed): analysing again a FOLLOW line that was analysed before
\* leaves the per-user and the per-metric counts as they were.
C4_CliFollowIdempotent ==
    (/\ cli_line.json
     /\ cli_line.eventType = "metric_subscription_change"
     /\ Truthy(cli_line.actorUserLuid) /\ Truthy(cli_line.scopedMetricId)
     /\ cli_line.subscriptionOperation = "FOLLOW_OPERATION_FOLLOW"
     /\ cli_line \in cli_seen) =>
        /\ user_subscriptions = cli_pre.user_subscriptions
        /\ cli_metric_followers = cli_pre.metric_followers

-----------------------------------------------------------------------------
(* Claims about tcm_get_activity_log_paths of the web app (SpecPaths) *)

\* The n-th answer is a page that carries a continuation token.
TokenPage(script, n) ==
    LET r == Answer(script, n)
    IN  /\ r.kind = "http" /\ r.status = 200 /\ r.body = "json"
        /\ r.pageToken # None /\ r.pageToken # ""
\* The n-th answer is a page without a continuation token.
LastPage(script, n) ==
    LET r == Answer(script, n)
    IN  /\ r.kind = "http" /\ r.status = 200 /\ r.body = "json"
        /\ (r.pageToken = None \/ r.pageToken = "")
RECURSIVE FirstPages(_, _)
\* The locators of the first n pages, in order.
FirstPages(script, n) ==
    IF n = 0 THEN <<>>
    ELSE FirstPages(script, n - 1) \o PageFilePaths(Answer(script, n))

\* C8: with ceiling max_pages = N, a server that gives a continuation token
\* on each of the first N pages gets success, exactly the locators of the
\* first N pages and partial = true; a listing that ends within N pages gets
\* success, all its locators and no partial flag; reaching the ceiling never
\* gives a failure.
C8_CeilingPartial ==
    paths_result # NoResult =>
        /\ (\A i \in 1..paths_max_pages : TokenPage(paths_script, i)) =>
              /\ paths_result.success
              /\ paths_result.partial
              /\ paths_result.file_paths = FirstPages(paths_script, paths_max_pages)
        /\ \A k \in 1..paths_max_pages :
              ((\A i \in 1..(k - 1) : TokenPage(paths_script, i))
                 /\ LastPage(paths_script, k)) =>
                  /\ paths_result.success
                  /\ ~paths_result.partial
                  /\ paths_result.file_paths = FirstPages(paths_script, k)
        /\ (paths_result.hit_limit => paths_result.success)

\* C8 witness: a call with a ceiling of at least 2 stopped at the ceiling
\* with locators from two different pages.
C8_Witness ==
    /\ paths_result # NoResult
    /\ paths_max_pages >= 2
    /\ paths_result.hit_limit
    /\ Len(paths_result.file_paths) >= 2
    /\ PageFilePaths(Answer(paths_script, 1)) # PageFilePaths(Answer(paths_script, 2))

-----------------------------------------------------------------------------
(* Claims about the date chunks (SpecChunks) *)

\* The chunks are ascending, do not overlap, cover every second of
\* [first, last] and nothing else, and each lasts at most 7 days.
ExactCover(chunks, first, last) ==
    /\ Len(chunks) >= 1
    /\ chunks[1].start = first
    /\ chunks[Len(chunks)].end = last
    /\ \A i \in 1..Len(chunks) :
          /\ chunks[i].start <= chunks[i].end
          /\ chunks[i].end - chunks[i].start <= 7 * Day
    /\ \A i \in 1..(Len(chunks) - 1) : chunks[i + 1].start = chunks[i].end + 1

\* C9 (as claimed): for every requested range with start < end the chunks
\* of the CLI loop partition [start, end] exactly, each at most 7 days long,
\* and so does the fixed chunk list of the web route for its fixed range.
C9_ChunksPartitionRange ==
    (chunk_pc = "done" /\ start_date < end_date) =>
        /\ ExactCover(date_chunks, start_date, end_date)
        /\ ExactCover(date_ranges, target_start_date, target_end_date)


\* ---- runs of the web route and of the CLI ----

NoDataRequests(requests) ==
    requests.list = 0 /\ requests.resolve = 0 /\ requests.download = 0
WebLoginFailed == web_requests.login > 0 /\ ~login_result.success
WebSigninFailed == web_requests.signin > 0 /\ ~tableau_auth.success
CliLoginFailed == cli_requests.login > 0 /\ ~cli_login.success
CliSigninFailed == cli_requests.signin > 0 /\ ~cli_auth.success

\* C6 (as stated): in the web route and in the CLI, once either
\* authentication (TCM login or Tableau sign-in) has failed, the run is
\* over with a failure and has issued no listing, URL-resolution or
\* download request.
C6_AuthFailureNoDataRequests ==
    /\ (WebLoginFailed \/ WebSigninFailed) =>
          /\ web_pc = "done" /\ ~web_response.success
          /\ NoDataRequests(web_requests)
    /\ (CliLoginFailed \/ CliSigninFailed) =>
          /\ cli_pc = "done" /\ cli_exit = 1
          /\ NoDataRequests(cli_requests)

\* What holds of C6: a failed TCM login ends the run with a failure and no
\* listing, URL-resolution, download or sign-in request; the Tableau
\* sign-in is requested only after the listing and the URL resolution, and
\* its failure ends the CLI with exit status 1, while the web route goes on
\* with empty name maps and answers with the report.
C6_LoginFailureAborts ==
    /\ WebLoginFailed =>
          /\ web_pc = "done"
          /\ web_response = WebFailure("tcm_auth_failed")
          /\ NoDataRequests(web_requests) /\ web_requests.signin = 0
    /\ CliLoginFailed =>
          /\ cli_pc = "done" /\ cli_exit = 1
          /\ NoDataRequests(cli_requests) /\ cli_requests.signin = 0
    /\ web_requests.signin > 0 =>
          web_requests.list > 0 /\ web_requests.resolve > 0
    /\ cli_requests.signin > 0 =>
          cli_requests.list > 0 /\ cli_requests.resolve > 0
    /\ CliSigninFailed => cli_pc = "done" /\ cli_exit = 1
    /\ WebSigninFailed =>
          /\ user_name_map = <<>> /\ metric_name_map = <<>>
          /\ web_pc \in {"report", "done"}
          /\ web_pc = "done" =>
                web_response.success /\ web_response.kind = "report"
C6_Witness ==
    \/ WebLoginFailed /\ web_pc = "done" /\ cli_pc = "idle"
    \/ CliLoginFailed /\ cli_pc = "done" /\ web_pc = "idle"
C6_WitnessSignin ==
    /\ WebSigninFailed /\ web_pc = "done" /\ web_requests.download > 0

\* A step of the loop over date_ranges in which the listing call failed on
\* its first request.
FirstPageFailure ==
    /\ web_pc = "list"
    /\ web_requests'.list = web_requests.list + 1
    /\ Len(web_results') = Len(web_results) + 1
    /\ web_results'[Len(web_results')].tag = "range_failed"

\* C7 (as stated): in the web route, when the first listing request of a
\* date range fails, the run is over with a failure result, so no later
\* range is listed and no resolution, download or report follows.
C7_FirstPageFailureAborts ==
    [][FirstPageFailure => web_pc' = "done" /\ ~web_response'.success]_vars

\* What holds of C7: in the web route, when the first listing request of a
\* date range fails, the failure is recorded in the results and the loop
\* goes on with the next range; no response is produced by the failure.
\* The run then ends before resolution only if no range yielded a locator,
\* and then with a success result and no resolution or download request.
C7_RangeFailureContinues ==
    /\ [][FirstPageFailure =>
            /\ web_range' = web_range + 1
            /\ web_pc' = IF web_range' > Len(date_ranges) THEN "listed"
                         ELSE "list"
            /\ web_response' = web_response
            /\ all_file_paths' = all_file_paths]_vars
    /\ [](web_response.kind # "listing_failed")
    /\ []((web_pc = "done" /\ web_requests.list > 0
           /\ web_requests.resolve = 0) =>
             /\ all_file_paths = <<>>
             /\ web_response = WebSuccess("no_logs")
             /\ web_requests.download = 0)
C7_Witness ==
    /\ Len(web_results) >= 2
    /\ web_results[1].tag = "range_failed"
    /\ web_results[2].tag = "range_found"
    /\ web_requests.list = 2
    /\ web_requests.resolve > 0

\* The listing of a run is over, every listing call succeeded and no
\* locator was found.
WebListedNothing ==
    /\ web_range > Len(date_ranges)
    /\ web_pc # "listed"
    /\ all_file_paths = <<>>
    /\ \A i \in 1..Len(web_results) : web_results[i].tag = "range_found"
\* The errors main printed after the dates were settled.
RunErrors(errors) == SelectSeq(errors, LAMBDA x : x # "invalid_date")
CliListedNothing ==
    /\ cli_pc \notin {"idle", "start", "chunks"}
    /\ cli_requests.list > 0
    /\ cli_all_file_paths = <<>>
    /\ \A i \in 1..Len(cli_errors) : cli_errors[i] # "fetch_failed"

\* C10 (as stated): in the web route and in the CLI, when the listing
\* succeeds and yields no locator, the run ends without an error (success
\* result, exit status 0) and issues no URL-resolution or download request.
C10_EmptyListingNotAnError ==
    /\ WebListedNothing =>
          /\ web_pc = "done" /\ web_response.success
          /\ web_requests.resolve = 0 /\ web_requests.download = 0
    /\ CliListedNothing =>
          /\ cli_pc = "done" /\ cli_exit = 0
          /\ cli_requests.resolve = 0 /\ cli_requests.download = 0

\* What holds of C10: the web route answers with the success result of
\* "no logs"; the CLI reports an error and returns 1; neither issues a
\* URL-resolution or download request.
C10_EmptyListingOutcome ==
    /\ WebListedNothing =>
          /\ web_pc = "done" /\ web_response = WebSuccess("no_logs")
          /\ web_requests.resolve = 0 /\ web_requests.download = 0
    /\ CliListedNothing =>
          /\ cli_pc = "done" /\ cli_exit = 1
          /\ RunErrors(cli_errors) = <<"no_logs">>
          /\ cli_requests.resolve = 0 /\ cli_requests.download = 0
C10_WebCase == WebListedNothing /\ web_pc = "done"
C10_CliCase == CliListedNothing /\ cli_pc = "done"

\* The URL-resolution response of the run held no entry with a download
\* URL (or the call failed, which leaves files_with_urls empty).
NoResolvableEntry ==
    /\ web_requests.resolve > 0
    /\ \A i \in 1..Len(files_with_urls) : ~Truthy(files_with_urls[i].url)

\* C11 (as stated): in the web route, when the URL-resolution call fails or
\* its response has no entry with a download URL, the run ends with a
\* failure result; entries that all lack a URL never lead to a success.
C11_NoResolvableEntryFails ==
    (NoResolvableEntry /\ web_pc = "done") => ~web_response.success

\* What holds of C11: a failed call and an empty 'files' array end the run
\* with a failure result and without a download or sign-in request.
C11_FailedOrEmptyResolutionFails ==
    (web_requests.resolve > 0 /\ files_with_urls = <<>>) =>
        /\ web_pc = "done" /\ ~web_response.success
        /\ web_response.kind \in {"urls_failed", "no_urls", "unexpected_error"}
        /\ web_requests.download = 0 /\ web_requests.signin = 0
C11_UrllessCase ==
    /\ NoResolvableEntry /\ files_with_urls # <<>>
    /\ web_pc = "done" /\ web_response.success

\* A step of the download loop on a descriptor without URL, or on one
\* whose download fails.
FileFailure ==
    /\ web_pc = "download"
    /\ web_i <= Len(files_with_urls)
    /\ \/ ~Truthy(files_with_urls[web_i].url)
       \/ /\ web_requests'.download = web_requests.download + 1
          /\ all_logs' = all_logs
WithUrl(files) == {i \in 1..Len(files) : Truthy(files[i].url)}
DownloadsOver ==
    \/ web_pc \in {"signin", "names", "report"}
    \/ web_pc = "done" /\ web_response.kind = "report"

\* The run is over and its download loop counted a failure.
FailuresCounted == web_pc = "done" /\ failed_count > 0

\* C12 (as stated): in the download loop of the web route, a failed
\* download or a descriptor without URL adds exactly one to the failure
\* count and the loop goes on with the next descriptor; every descriptor is
\* attempted and counted once, and the run reaches the report: a run that
\* is over after a counted failure has answered with the report.
C12_FailuresReachReport ==
    /\ [][FileFailure =>
            /\ failed_count' = failed_count + 1
            /\ downloaded_count' = downloaded_count
            /\ web_i' = web_i + 1
            /\ web_pc' = "download"
            /\ web_response' = web_response]_vars
    /\ [](DownloadsOver =>
            /\ downloaded_count + failed_count = Len(files_with_urls)
            /\ web_requests.download = Cardinality(WithUrl(files_with_urls)))
    /\ [](FailuresCounted => web_response.kind = "report")
    /\ (web_pc = "download") ~>
          (web_pc = "done" /\ web_response.kind = "report")

\* What holds of C12: the loop itself never ends the run and counts every
\* descriptor once; the report carries the counts; the run is over in the
\* report, or in the route's exception handler when the reducer raises on
\* a downloaded line (a JSON value that is no object, or an event whose
\* action is null).
C12_FileFailuresTolerated ==
    /\ [][FileFailure =>
            /\ failed_count' = failed_count + 1
            /\ downloaded_count' = downloaded_count
            /\ web_i' = web_i + 1
            /\ web_pc' = "download"
            /\ web_response' = web_response]_vars
    /\ [](DownloadsOver =>
            /\ downloaded_count + failed_count = Len(files_with_urls)
            /\ web_requests.download = Cardinality(WithUrl(files_with_urls))
            /\ downloaded_count = Len(all_logs))
    /\ []((web_pc = "done" /\ web_response.kind = "report") =>
            /\ web_response.success
            /\ web_response.failed_count = failed_count
            /\ web_response.log_count = downloaded_count)
    /\ (web_pc = "download") ~>
          /\ web_pc = "done"
          /\ \/ web_response.kind = "report"
             \/ /\ web_response.kind = "unexpected_error"
                /\ ReducerRaises(ParseLogs(all_logs))
\* A run with one failed download whose other file holds a line the reducer
\* raises on.
C12_RaiseCase ==
    /\ FailuresCounted /\ downloaded_count = 1
    /\ web_response.kind = "unexpected_error"
C12_Witness ==
    /\ web_pc = "done" /\ web_response.kind = "report"
    /\ Len(files_with_urls) = 2
    /\ web_response.failed_count = 1
    /\ web_response.log_count = 1
    /\ Len(all_logs) = 1
    /\ all_logs[1].file_path = files_with_urls[2].path

CliDownloadsOver ==
    \/ cli_pc \in {"signin", "names"}
    \/ cli_pc = "done" /\ cli_requests.signin > 0

\* C13 (as stated): in the CLI, each descriptor that URL resolution returns
\* without a URL and each file whose download fails is counted as a
\* failure in the outcome of the run, and the other files are still
\* downloaded: when the download loop is over the failures on record are
\* the descriptors that yielded no log.
C13_CliFailuresCounted ==
    CliDownloadsOver =>
        /\ CountOf(cli_errors, "download_failed")
              = Len(cli_files) - Len(combined_logs)
        /\ cli_requests.download = Cardinality(WithUrl(cli_files))

\* What holds of C13: every descriptor with a URL is downloaded, a failed
\* download leaves one error message and the loop goes on; a descriptor
\* without URL leaves no trace.
C13_CliDownloadsGoOn ==
    CliDownloadsOver =>
        /\ cli_requests.download = Cardinality(WithUrl(cli_files))
        /\ Len(download_urls) = Cardinality(WithUrl(cli_files))
        /\ CountOf(cli_errors, "download_failed")
              = Len(download_urls) - Len(combined_logs)
C13_UrllessCase ==
    /\ CliDownloadsOver
    /\ Len(cli_files) = 2 /\ Len(download_urls) = 1
    /\ Len(combined_logs) = 1 /\ RunErrors(cli_errors) = <<>>

\* ---- the report step ----

Perms(n) == {f \in [1..n -> 1..n] : \A i, j \in 1..n : i # j => f[i] # f[j]}
\* f puts the positions of d in descending order of count, equal counts in
\* the order of d.
StableDescending(f, d) ==
    \A p, q \in 1..Len(d) :
        p < q => \/ d[f[p]].count > d[f[q]].count
                 \/ d[f[p]].count = d[f[q]].count /\ f[p] < f[q]
RowIsOf(row, entry) ==
    /\ row.count = entry.count
    /\ rep_kind = "web" => row.id = entry.key /\ row.members = Members(entry.count)
    /\ rep_kind = "cli" => row.name = CliDisplayName(rep_names, entry.key)

\* C14: in the web route and in the CLI the rows of a report are the
\* entries of the reduced state, one row each, in descending order of
\* count, and rows of equal count keep the order in which their keys were
\* inserted into the state.
C14_StableDescendingRows ==
    rep_pc = "done" =>
        /\ Len(rep_rows) = Len(rep_input)
        /\ \E f \in Perms(Len(rep_input)) :
              /\ StableDescending(f, rep_input)
              /\ \A p \in 1..Len(rep_input) :
                    RowIsOf(rep_rows[p], rep_input[f[p]])
C14_Witness ==
    /\ rep_pc = "done" /\ rep_kind = "web"
    /\ rep_input = <<[key |-> "id2", count |-> 1], [key |-> "id1", count |-> 1],
                     [key |-> "id3", count |-> 2]>>
    /\ [p \in 1..3 |-> rep_rows[p].id] = <<"id3", "id2", "id1">>
C14_WitnessCli ==
    /\ rep_pc = "done" /\ rep_kind = "cli" /\ rep_names = <<>>
    /\ rep_input = <<[key |-> "id2", count |-> 1], [key |-> "id1", count |-> 1],
                     [key |-> "id3", count |-> 2]>>
    /\ [p \in 1..3 |-> rep_rows[p].count] = <<2, 1, 1>>
    /\ rep_rows[2].name = CliDisplayName(<<>>, "id2")

Unmapped(id) == ~Has(rep_names, id)

\* C15 (as stated): in the web route and in the CLI, the row of an ID that
\* has no entry in the name map shows the raw ID string as its name.
C15_RawIdFallback ==
    rep_pc = "done" =>
        \E f \in Perms(Len(rep_input)) :
            /\ StableDescending(f, rep_input)
            /\ \A p \in 1..Len(rep_input) :
                  Unmapped(rep_input[f[p]].key) =>
                      rep_rows[p].name = rep_input[f[p]].key

\* What holds of C15: the web route shows the raw ID; the CLI shows
\* "Unknown (" + ID + ")".
C15_FallbackNames ==
    rep_pc = "done" =>
        \E f \in Perms(Len(rep_input)) :
            /\ StableDescending(f, rep_input)
            /\ \A p \in 1..Len(rep_input) :
                  LET id == rep_input[f[p]].key
                  IN  /\ (Unmapped(id) /\ rep_kind = "web") =>
                              rep_rows[p].name = id
                      /\ (Unmapped(id) /\ rep_kind = "cli") =>
                              rep_rows[p].name = "Unknown (" \o id \o ")"
                      /\ ~Unmapped(id) =>
                              rep_rows[p].name = Get(rep_names, id)
C15_WebCase ==
    /\ rep_pc = "done" /\ rep_kind = "web" /\ rep_names = <<<<"id1", "alice">>>>
    /\ Len(rep_rows) = 2
    /\ rep_rows[1].name = "id2" /\ rep_rows[2].name = "alice"
C15_CliCase ==
    /\ rep_pc = "done" /\ rep_kind = "cli" /\ rep_names = <<<<"id1", "alice">>>>
    /\ Len(rep_rows) = 2
    /\ rep_rows[1].name = "Unknown (id2)" /\ rep_rows[2].name = "alice"

\* C16: every invocation of the web route ends by returning a result object
\* with a success flag, whatever its collaborators answer: the route
\* reaches its end, it has a response exactly when it is at its end, and an
\* exception raised inside it becomes a failure result.
C16_AlwaysReturnsResult ==
    /\ [](web_pc = "done" =>
            web_response # NoResponse /\ web_response.success \in BOOLEAN)
    /\ [](web_pc # "done" => web_response = NoResponse)
    /\ <>(web_pc = "done")
C16_Witness ==
    /\ web_pc = "done"
    /\ web_response = WebFailure("unexpected_error")
    /\ web_requests.download > 0

\* The result object carries a partial flag that is set.
FlaggedPartial(response) ==
    "partial" \in DOMAIN response /\ response.partial

\* C17 (as stated): in the web route, when the page ceiling or a timeout
\* cut the listing of a date range short, the final result of a run that
\* ends with its report is flagged as partial.
C17_PartialListingFlagged ==
    (web_pc = "done" /\ web_response.kind = "report" /\ ranges_partial # {})
        => FlaggedPartial(web_response)

\* What holds of C17: the listing call flags its own result, the route
\* takes its file_paths as those of a complete listing and no result of the
\* route carries a partial flag; such a run is not reported as a failure
\* when it ends with its report.
C17_PartialFlagDropped ==
    /\ ~FlaggedPartial(web_response)
    /\ (web_pc = "done" /\ web_response.kind = "report") => web_response.success
C17_CeilingCase ==
    /\ web_pc = "done" /\ web_response.kind = "report"
    /\ 1 \in ranges_partial
    /\ web_requests.list >= DefaultMaxPages
C17_TimeoutCase ==
    /\ web_pc = "done" /\ web_response.kind = "report"
    /\ ranges_partial = {2}
    /\ web_requests.list < DefaultMaxPages

\* The answer has a success status and lacks a field the function expects.
LacksField ==
    /\ auth_answer.kind = "http" /\ auth_answer.status = 200
    /\ CASE auth_fn \in {"tcm_login", "cli_tcm_login"} ->
              auth_answer.sessionToken = None \/ auth_answer.tenantId = None
         [] auth_fn = "authenticate_tableau_rest" ->
              auth_answer.token = None \/ auth_answer.site_id = None
         [] OTHER -> auth_answer.token = None \/ auth_answer.site_id = None

\* C18 (as stated): an authentication response with success status that
\* lacks an expected field is reported as an authentication failure
\* (success = false), by tcm_login and by authenticate_tableau_rest.
C18_MissingFieldIsAuthFailure ==
    (auth_pc = "returned" /\ LacksField) => ~auth_result.success

\* What holds of C18: it holds of tcm_login of both programs and of
\* authenticate_tableau_rest of the CLI; authenticate_tableau_rest of the
\* web application reports the failure only when the credentials element
\* itself is missing.
C18_OtherAuthFailures ==
    (auth_pc = "returned" /\ LacksField) =>
        \/ ~auth_result.success
        \/ auth_fn = "authenticate_tableau_rest" /\ auth_answer.credentials
C18_MissingTokenCase ==
    /\ auth_pc = "returned" /\ auth_fn = "authenticate_tableau_rest"
    /\ LacksField /\ auth_answer.token = None /\ auth_answer.site_id = "site"
    /\ auth_result.success /\ auth_result.auth_token = None
C18_MissingSiteCase ==
    /\ auth_pc = "returned" /\ auth_fn = "authenticate_tableau_rest"
    /\ LacksField /\ auth_answer.token = "tok" /\ auth_answer.site_id = None
    /\ auth_result.success /\ auth_result.site_id = None
C18_LoginCase ==
    /\ auth_pc = "returned" /\ auth_fn = "tcm_login"
    /\ LacksField /\ ~auth_result.success

\* The lines of the downloaded contents, as <<entry, line>> positions.
DownloadedLines ==
    UNION {{<<i, j>> : j \in 1..Len(all_logs[i].content)} :
              i \in 1..Len(all_logs)}
LineAt(p) == all_logs[p[1]].content[p[2]]
\* The lines that are JSON and the lines that are not.
JsonLines == {p \in DownloadedLines : LineAt(p).json}
RejectedLines == {p \in DownloadedLines : ~LineAt(p).json}
AfterAnalysis ==
    /\ web_pc \in {"signin", "names", "report", "done"}
    /\ web_response.kind \in {"none", "report"}

\* C19 (as stated): in the web route every non-blank line of downloaded
\* content is parsed independently, so every JSON line becomes an event, and
\* the number of lines that failed to parse is in the result of the run.
C19_LinesParsedFailuresCounted ==
    (web_pc = "done" /\ web_response.kind = "report") =>
        /\ web_response.events_analyzed = Cardinality(JsonLines)
        /\ "parse_failures" \in DOMAIN web_response
        /\ web_response.parse_failures = Cardinality(RejectedLines)

\* What holds of C19: a line that is not JSON is skipped without stopping
\* the run and the lines after it in the same file are still parsed, as
\* long as the file does not start with '=' or 'LOG FILE:'; such a file is
\* skipped whole, and no result carries a count of the skipped lines.
C19_InvalidLineSkipped ==
    /\ AfterAnalysis =>
          Len(subscription_events) =
              Cardinality({p \in JsonLines :
                              ~SkippedEntry(all_logs[p[1]].content)})
    /\ "parse_failures" \notin DOMAIN web_response
C19_GarbageCase ==
    /\ web_pc = "done" /\ web_response.kind = "report"
    /\ Len(all_logs) = 1
    /\ \E j \in 1..2 : /\ <<1, j>> \in RejectedLines
                       /\ LineAt(<<1, j>>).kind = "text"
                       /\ <<1, j + 1>> \in JsonLines
    /\ web_response.events_analyzed = 2
C19_MarkerCase ==
    /\ web_pc = "done" /\ web_response.kind = "report"
    /\ Len(all_logs) = 1
    /\ SkippedEntry(all_logs[1].content)
    /\ JsonLines # {}
    /\ web_response.events_analyzed = 0

\* No locator appears twice in the list.
NoDuplicates(paths) ==
    \A i, j \in 1..Len(paths) : paths[i] = paths[j] => i = j

\* C20 (as stated): the list of locators handed to URL resolution contains
\* no duplicates, whatever the pages of the server hold, in the web route
\* and in the CLI.
C20_NoDuplicateLocators ==
    /\ web_pc = "resolve" => NoDuplicates(all_file_paths)
    /\ cli_pc = "resolve" => NoDuplicates(cli_all_file_paths)

\* The same locator listed by two date ranges of the web route, and by two
\* pages of the CLI, is handed twice to URL resolution.
C20_WebCase ==
    /\ web_pc = "resolve" /\ web_requests.list = 2
    /\ all_file_paths = <<"f2", "f2">>
C20_CliCase ==
    /\ cli_pc = "resolve"
    /\ ~NoDuplicates(cli_all_file_paths)

\* The first answer of the script is a status that is no success.
FirstPageDenied == Head(paths_script).kind = "http" /\ Head(paths_script).status = 403
FirstPageNoSuccess ==
    Head(paths_script).kind = "http" /\ Head(paths_script).status # 200
Called == paths_result # NoResult

\* C21 (as stated, for the CLI): a 403, or any other status that is no
\* success, on the first page of a chunk is not taken as the end of the
\* pagination: the page loop ends on a failed result.
C21_FirstPageDeniedIsFailure ==
    (Called /\ FirstPageNoSuccess) => paths_result.failed

\* What holds of C21 in the CLI: the page loop stops at the first page
\* without continuation token and at the first 403, on any page; it goes on
\* after a page with a token, up to its ceiling; a first page with another
\* status than 200 and 403 ends the loop on a failed result.
C21_CliLoopStops ==
    Called =>
      LET n == paths_result.requests
          last == cli_get_activity_log_paths(Answer(paths_script, n))
      IN  /\ n \in 1..CliMaxPages
          /\ \A k \in 1..(n - 1) :
                LET r == cli_get_activity_log_paths(Answer(paths_script, k))
                IN  r.success /\ Truthy(r.nextPageToken)
          /\ paths_result.failed = ~last.success
          /\ (last.success /\ Truthy(last.nextPageToken)) => n = CliMaxPages
          /\ (FirstPageNoSuccess /\ ~FirstPageDenied) => paths_result.failed
C21_CliDeniedCase ==
    /\ Called /\ FirstPageDenied
    /\ ~paths_result.failed /\ paths_result.file_paths = <<>>
    /\ paths_result.requests = 1
C21_CliLaterDeniedCase ==
    /\ Called /\ paths_result.requests = 2
    /\ Answer(paths_script, 2).status = 403
    /\ ~paths_result.failed /\ paths_result.file_paths = <<"f1">>

\* What holds of C21 in the web application: a first page with a status
\* that is no success ends the call on a failure, and a call that returns a
\* complete listing stopped at a page without continuation token, or at a
\* 403 or an empty body on a page after the first.
C21_WebStops ==
    Called =>
      LET n == paths_result.page_count
          last == Answer(paths_script, n)
      IN  /\ FirstPageNoSuccess => ~paths_result.success
          /\ (paths_result.success /\ ~paths_result.partial) =>
                /\ n <= paths_max_pages
                /\ \A k \in 1..(n - 1) :
                      /\ Answer(paths_script, k).body = "json"
                      /\ Truthy(Answer(paths_script, k).pageToken)
                /\ \/ last.body = "json" /\ ~Truthy(last.pageToken)
                   \/ n > 1 /\ (last.status = 403 \/ last.body = "empty")
C21_WebLaterDeniedCase ==
    /\ Called /\ paths_result.page_count = 2
    /\ Answer(paths_script, 2).status = 403
    /\ paths_result.success /\ ~paths_result.partial
    /\ paths_result.file_paths # <<>>

\* C22 (as stated): the page-count ceiling is a ceiling per run; the
\* listing requests of one run of the web route, over all its date ranges,
\* and of one run of the CLI, over all its chunks, never exceed it.
C22_CeilingPerRun ==
    /\ web_requests.list <= DefaultMaxPages
    /\ cli_requests.list <= CliMaxPages

\* What holds of C22: the ceiling bounds the requests of each date range
\* (each chunk); a range of the web route that reaches it returns its
\* locators flagged as partial and the route goes on with the next range.
C22_CeilingPerRange ==
    /\ web_requests.list <= DefaultMaxPages * (web_range - 1)
    /\ cli_requests.list <= CliMaxPages * Len(date_chunks)
    /\ web_requests.list = DefaultMaxPages * (web_range - 1)
          => ranges_partial = 1..(web_range - 1)
C22_WebCase ==
    /\ web_pc = "done" /\ web_response.kind = "report"
    /\ web_requests.list = 2 * DefaultMaxPages
    /\ ranges_partial = {1, 2}
C22_CliCase ==
    /\ cli_pc = "done" /\ cli_exit = 0
    /\ cli_requests.list = 2 * CliMaxPages

RECURSIVE IsSubSeq(_, _)
\* a is b with some of its elements left out, the order kept.
IsSubSeq(a, b) ==
    IF a = <<>> THEN TRUE
    ELSE IF b = <<>> THEN FALSE
    ELSE IF Head(a) = Head(b) THEN IsSubSeq(Tail(a), Tail(b))
    ELSE IsSubSeq(a, Tail(b))
\* The tags of the contents of all_logs, in the order of their concatenation.
LogTags == [i \in 1..Len(all_logs) |-> all_logs[i].file_path]
ResponsePaths == [i \in 1..Len(files_with_urls) |-> files_with_urls[i].path]

\* C23 (as stated): in the web route the contents of the fetched files are
\* concatenated in the order of the locator list sent to URL resolution,
\* also when the response lists its entries in another order.
C23_LocatorOrder ==
    IsSubSeq(LogTags, all_file_paths)

\* What holds of C23: the contents are concatenated in the order of the
\* entries of the resolution response, each tagged with the path of its
\* entry.
C23_ResponseOrder ==
    /\ IsSubSeq(LogTags, ResponsePaths)
    /\ Len(all_logs) = downloaded_count
C23_ReorderedCase ==
    /\ web_pc = "done" /\ web_response.kind = "report"
    /\ all_file_paths = <<"f1", "f2">>
    /\ ResponsePaths = <<"f2", "f1">>
    /\ LogTags = <<"f2", "f1">>

\* The event folded last has an operation value that is neither a follow
\* nor an unfollow.
EventUnrecognized ==
    /\ n_events > 0
    /\ ~IsFollowAction(event_action(event))
    /\ ~IsUnfollowAction(event_action(event))

\* C24 (as stated): in the reducer of the web route an event with an
\* unrecognized operation value is skipped; user_metrics, metric_followers,
\* the distinct users and metrics and the report rows are those before the
\* event.
C24_UnrecognizedSkipped ==
    EventUnrecognized =>
        /\ ReducerState = pre_state
        /\ ReportRows(user_metrics, <<>>) = ReportRows(pre_state.user_metrics, <<>>)
        /\ ReportRows(metric_followers, <<>>)
              = ReportRows(pre_state.metric_followers, <<>>)

\* What holds of C24: such an event changes no followed pair and no count
\* of a row; with both IDs it is counted among the distinct users and
\* metrics and gives each ID a row, with count 0 if the ID had none.
C24_UnrecognizedKeepsPairs ==
    EventUnrecognized =>
        /\ FollowedPairs(user_metrics) = FollowedPairs(pre_state.user_metrics)
        /\ \A i \in 1..Len(pre_state.user_metrics) :
              user_metrics[i] = pre_state.user_metrics[i]
        /\ \A i \in 1..Len(pre_state.metric_followers) :
              metric_followers[i] = pre_state.metric_followers[i]
        /\ EventHasIds =>
              /\ event.actorLuid \in user_luids /\ Has(user_metrics, event.actorLuid)
              /\ event.metricId \in metric_ids
              /\ Has(metric_followers, event.metricId)
        /\ ~EventHasIds => ReducerState = pre_state
C24_ViewCase ==
    /\ EventUnrecognized /\ EventHasIds
    /\ event.action = Str_view
    /\ ~Has(pre_state.user_metrics, event.actorLuid)
    /\ Get(user_metrics, event.actorLuid) = {}
    /\ Cardinality(user_luids) = Cardinality(pre_state.user_luids) + 1
    /\ pre_state.user_metrics # <<>>

\* The names step ran with a definitions response of status 200.
MetricsLookedUp ==
    /\ tableau_auth.success
    /\ web_pc \in {"report", "done"}
    /\ \A i \in 1..Len(web_results) : web_results[i].tag # "definitions_failed"
\* The metric ids whose detail lookup gave no name.
MetricsWithoutName == {m \in metric_ids : ~Has(metric_name_map, m)}

\* C25: in the web route the failure of the detail lookup of one metric
\* does not abort the name resolution: every distinct metric id is looked
\* up whatever the lookups of the others gave, the report shows the raw id
\* for a metric without name and the name for the others, and the run
\* returns a success result.
C25_MetricFailureTolerated ==
    /\ MetricsLookedUp => web_requests.metric = Cardinality(metric_ids)
    /\ (web_pc = "done" /\ tableau_auth.success) =>
          /\ web_response.success /\ web_response.kind = "report"
          /\ \A i \in 1..Len(web_response.metric_report) :
                LET row == web_response.metric_report[i]
                IN  row.name = IF row.id \in MetricsWithoutName THEN row.id
                               ELSE Get(metric_name_map, row.id)
\* C25 witness: the lookup of m1 failed, m2 was still looked up and named,
\* and the report shows m1 by its raw id.
C25_Witness ==
    /\ web_pc = "done" /\ MetricsLookedUp
    /\ metric_ids = {"m1", "m2"}
    /\ MetricsWithoutName = {"m1"}
    /\ web_requests.metric = 2
    /\ \E i, j \in 1..Len(web_response.metric_report) :
          /\ web_response.metric_report[i].id = "m1"
          /\ web_response.metric_report[i].name = "m1"
          /\ web_response.metric_report[j].id = "m2"
          /\ web_response.metric_report[j].name = "Definition of m2"

\* Every users request of the call was answered with status 200.
DirAllAnswered == \A n \in 1..dir_requests : dir_ok[n]

\* C26 (as stated): user resolution fetches the complete user directory,
\* whatever the number of its pages: every user of the directory has an
\* entry in the ID-to-name map (web route and CLI).
C26_CompleteDirectory ==
    (dir_pc = "returned" /\ DirAllAnswered) =>
        \A u \in DirectoryUsers(dir_total) : Has(dir_map, u)

\* What holds of C26: the CLI fetches every page as long as the requests
\* succeed; the web route issues one request and maps the users of the
\* first page only.
C26_FirstPageOnly ==
    dir_pc = "returned" =>
        /\ (dir_kind = "cli" /\ DirAllAnswered) =>
              Keys(dir_map) = DirectoryUsers(dir_total)
        /\ dir_kind = "web" =>
              /\ dir_requests = 1
              /\ Keys(dir_map) = IF dir_ok[1]
                                 THEN DirectoryUsers(dir_total) \cap {DirUsers[1]}
                                 ELSE {}
C26_WebCase ==
    /\ dir_pc = "returned" /\ dir_kind = "web" /\ DirAllAnswered
    /\ dir_total = 1001
    /\ "u2" \in DirectoryUsers(dir_total)
    /\ ~Has(dir_map, "u2") /\ Has(dir_map, "u1")
C26_CliCase ==
    /\ dir_pc = "returned" /\ dir_kind = "cli" /\ DirAllAnswered
    /\ dir_total = 2001 /\ dir_requests = 3
    /\ Keys(dir_map) = {"u1", "u2", "u3"}

\* C27: in the download loop of the web route, after each processed
\* descriptor downloaded_count + failed_count is the number of descriptors
\* processed so far; at the end log_count + failed_count is the number of
\* entries of the URL-resolution response.
C27_CountsPartition ==
    /\ web_pc = "download" =>
          /\ web_i \in 1..(Len(files_with_urls) + 1)
          /\ downloaded_count + failed_count = web_i - 1
    /\ DownloadsOver => downloaded_count + failed_count = Len(files_with_urls)
    /\ (web_pc = "done" /\ web_response.kind = "report") =>
          web_response.log_count + web_response.failed_count
              = Len(files_with_urls)
\* C27 witness: a response of two entries, the first without URL and the
\* second with a failed download, both counted once.
C27_Witness ==
    /\ web_pc = "done" /\ web_response.kind = "report"
    /\ Len(files_with_urls) = 2
    /\ ~Truthy(files_with_urls[1].url) /\ Truthy(files_with_urls[2].url)
    /\ web_requests.download = 1
    /\ web_response.log_count = 0 /\ web_response.failed_count = 2

\* C28: every call of tcm_get_activity_log_paths of the web application
\* returns after at most max_pages listing requests, whatever the server
\* answers, also when every page carries a continuation token or the same
\* token is repeated for ever.
C28_CallBounded ==
    Called =>
        /\ paths_result.requests \in 1..paths_max_pages
        /\ paths_result.success => paths_result.page_count <= paths_max_pages + 1
        /\ paths_result.requests = paths_max_pages =>
              \A i \in 1..(paths_max_pages - 1) : TokenPage(paths_script, i)
\* C28 witness: a server whose single answer, a page with the same token,
\* is repeated for ever; the call returned at the ceiling.
C28_Witness ==
    /\ Called
    /\ Len(paths_script) = 1
    /\ paths_script[1].pageToken = "tokA"
    /\ paths_max_pages = MaxCeiling
    /\ paths_result.requests = paths_max_pages
    /\ paths_result.hit_limit

\* The call ended on a timeout or another exception raised by the request
\* of page n, after n - 1 pages that went on.
RaisedOnPage(n) ==
    /\ n <= paths_max_pages
    /\ \A i \in 1..(n - 1) : TokenPage(paths_script, i)
    /\ Answer(paths_script, n).kind \in {"timeout", "error"}

\* C29: in tcm_get_activity_log_paths of the web application a timeout or
\* another exception raised while a page is fetched returns success with
\* partial = true and exactly the locators of the earlier pages when there
\* is at least one, and a failure when there is none.
C29_ExceptionKeepsCollected ==
    Called =>
        \A n \in 1..paths_max_pages :
            RaisedOnPage(n) =>
                LET collected == FirstPages(paths_script, n - 1)
                IN  IF collected # <<>>
                    THEN /\ paths_result.success /\ paths_result.partial
                         /\ ~paths_result.hit_limit
                         /\ paths_result.file_paths = collected
                    ELSE /\ ~paths_result.success
                         /\ paths_result.file_paths = <<>>
\* C29 witness: a page of two locators, then a timeout on the second page.
C29_Witness ==
    /\ Called /\ RaisedOnPage(2)
    /\ Answer(paths_script, 2).kind = "timeout"
    /\ paths_result.success /\ paths_result.partial
    /\ Len(paths_result.file_paths) = 2
    /\ paths_result.file_paths = FirstPages(paths_script, 1)
C29_WitnessNone ==
    /\ Called /\ RaisedOnPage(2)
    /\ FirstPages(paths_script, 1) = <<>>
    /\ ~paths_result.success

-----------------------------------------------------------------------------
(* C30: sign-out on every return path after a successful sign-in *)

\* The run returned after a sign-in that gave a token.
SignInSucceeded ==
    /\ route_pc = "returned"
    /\ route_out.signed_in
    /\ route_env.signin # ""

\* C30: in the manage-followers and the swap-datasources route, every run in
\* which the sign-in succeeded issues a sign-out request before it returns,
\* on every return path (the 'No valid users found' return and the failure
\* returns after the sign-in included).
C30_SignOutOnEveryReturn == SignInSucceeded => route_out.signouts >= 1

\* C30, what the code does: the swap-datasources route signs out exactly once
\* on every return after the sign-in; the manage-followers route signs out
\* exactly once unless it returns 'No valid users found', and then not at all.
C30_SignOutButNoUsers ==
    SignInSucceeded =>
        route_out.signouts =
            IF route_kind = "manage_followers"
               /\ route_out.error = "No valid users found"
            THEN 0 ELSE 1

\* C30 case: manage-followers signed in, found none of the emails, and
\* returned without a sign-out request.
C30_NoUsersCase ==
    /\ SignInSucceeded
    /\ route_kind = "manage_followers"
    /\ route_env.users_found = <<FALSE, FALSE>>
    /\ route_out.signins = 1
    /\ ~route_out.success /\ route_out.error = "No valid users found"
    /\ route_out.signouts = 0

\* C30 case: swap-datasources signed in, failed while copying the metrics,
\* and signed out before the failure was returned.
C30_SwapFailureCase ==
    /\ SignInSucceeded
    /\ route_kind = "swap_datasources"
    /\ ~route_out.success /\ route_out.error = "Failed to copy metrics"
    /\ route_env.list_metrics = "ok"
    /\ route_out.signouts = 1

====
